---- MODULE Spec2Model ----
(***************************************************************************)
(* A model of the FortunaRNG class of src/src/index.ts: the generator     *)
(* (key, counter, rekeying), the 32 entropy pools, the reseed gate of      *)
(* randomData, the rejection sampler and the mutex-guarded batch.          *)
(*                                                                         *)
(* Byte strings are kept symbolically.  A byte string is a sequence of     *)
(* items, each a record [tag, v]:                                          *)
(*   tag "lit": v is the sequence of the literal bytes (0..255);           *)
(*   tag "sha": the 32-byte SHA-256 digest of the byte string v;           *)
(*   tag "aes": the first v.n bytes of AES-256(v.key, v.ctr) ||            *)
(*              AES-256(v.key, v.ctr + 1) || ...  : a run of blocks        *)
(*              encrypted under one key at consecutive counter values.     *)
(* SHA-256 and AES are the primitives of node's crypto module; they are    *)
(* functions of their inputs and are not computed here.                    *)
(***************************************************************************)
EXTENDS Integers, Sequences, FiniteSets, TLC

(***************************************************************************)
(* Program constants (src/src/index.ts:5-26).                              *)
(***************************************************************************)
KEY_SIZE_BYTES == 32
BLOCK_SIZE_BYTES == 16
MAX_GENERATE_BYTES == 1048576
NUM_POOLS == 32
RESEED_INTERVAL_MS == 100
POOL_SIZE == 64
RESERVED_POOL_ID1 == 252
RESERVED_POOL_ID2 == 253
RESERVED_POOL_ID3 == 254
RESERVED_POOL_ID4 == 255
\* 2^32 does not fit TLC's integers: wide numbers are kept as 16-bit limbs,
\* value = hi * 65536 + lo.
UINT32_MAX_COUNT == [hi |-> 65536, lo |-> 0]
SEED_LENGTH == 64
YIELD_EVERY == 10000

(***************************************************************************)
(* Bounds of the model.                                                    *)
(***************************************************************************)
StartTime == 1000
Horizon == 100
MaxOps == 3
MaxChunkOps == 2
MaxBatchOps == 3
MaxRounds == 16
MaxSchedOps == 2
MaxPoolBytes == 96
MaxRawDraws == 2
\* generateBlocks is run block by block up to this many blocks; a longer
\* request (a 1 MiB chunk is 65536 blocks) is taken in one step.
MaxLoopBlocks == 8
MaxArgOps == 2
MaxArgPoolBytes == 4
MaxSeedOps == 3
MaxTwinOps == 1
MaxIncrements == 3
MaxWideOps == 3
MaxIntervalOps == 4
ProducerHorizon == 600
MaxProducerOps == 1
MaxSpins == 2
MaxWebEntropy == 64
MaxStatOps == 70
IntervalHorizon == 200
\* How long after construction the two instances are followed, in ms.
TwinHorizon == 521
MaxSpan == 12
\* The width of a small word, over which residues are counted one by one.
SmallWord == 256

(***************************************************************************)
(* The 128-bit counter: a sequence of BLOCK_SIZE_BYTES bytes, big-endian.  *)
(***************************************************************************)
RECURSIVE IncFrom(_, _)
IncFrom(c, i) ==
  IF i = 0 THEN c
  ELSE IF c[i] < 255 THEN [c EXCEPT ![i] = @ + 1]
  ELSE IncFrom([c EXCEPT ![i] = 0], i - 1)

incrementCounterNoCarry(c) == [c EXCEPT ![BLOCK_SIZE_BYTES] = (@ + 1) % 256]

incrementCounterStuck(c) == c

incrementCounter(c) == IncFrom(c, BLOCK_SIZE_BYTES)

RECURSIVE AddFrom(_, _, _)
AddFrom(c, i, carry) ==
  IF i = 0 \/ carry = 0 THEN c
  ELSE AddFrom([c EXCEPT ![i] = (c[i] + carry) % 256], i - 1, (c[i] + carry) \div 256)

\* The counter after k calls of incrementCounter (the loop of generateBlocks):
\* k added at the last byte, each byte handing its carry to the one before it.
CounterAfter(c, k) == AddFrom(c, BLOCK_SIZE_BYTES, k)

(***************************************************************************)
(* Byte strings.                                                           *)
(***************************************************************************)
Empty == <<>>

Lit(bs) == IF bs = <<>> THEN <<>> ELSE <<[tag |-> "lit", v |-> bs]>>

\* Buffer.alloc(n, b)
Fill(n, b) == Lit([i \in 1..n |-> b])

\* Whether the run of blocks y goes on where the run x ends: x is whole
\* blocks, and y is under the same key at the counter value after x's last.
Continues(x, y) ==
  /\ x.tag = "aes" /\ y.tag = "aes"
  /\ x.v.key = y.v.key
  /\ x.v.n % BLOCK_SIZE_BYTES = 0
  /\ y.v.ctr = CounterAfter(x.v.ctr, x.v.n \div BLOCK_SIZE_BYTES)

\* Buffer.concat([a, b]); adjacent literal runs and adjacent block runs are
\* merged, so that a byte string has one representation.
Cat(a, b) ==
  IF a = <<>> THEN b
  ELSE IF b = <<>> THEN a
  ELSE IF a[Len(a)].tag = "lit" /\ b[1].tag = "lit"
       THEN SubSeq(a, 1, Len(a) - 1)
            \o <<[tag |-> "lit", v |-> a[Len(a)].v \o b[1].v]>>
            \o SubSeq(b, 2, Len(b))
       ELSE IF Continues(a[Len(a)], b[1])
       THEN SubSeq(a, 1, Len(a) - 1)
            \o <<[tag |-> "aes", v |-> [a[Len(a)].v EXCEPT !.n = @ + b[1].v.n]]>>
            \o SubSeq(b, 2, Len(b))
       ELSE a \o b

ItemLen(it) ==
  IF it.tag = "lit" THEN Len(it.v)
  ELSE IF it.tag = "sha" THEN KEY_SIZE_BYTES
  ELSE it.v.n

RECURSIVE ByteLen(_)
\* Buffer.length
ByteLen(bs) == IF bs = <<>> THEN 0 ELSE ItemLen(bs[1]) + ByteLen(Tail(bs))

\* crypto.createHash('sha256').update(data).digest()
hash(data) == <<[tag |-> "sha", v |-> data]>>

\* The first n bytes of the AES-256-ECB encryptions of ctr, ctr+1, ... under key.
Aes(key, ctr, n) == <<[tag |-> "aes", v |-> [key |-> key, ctr |-> ctr, n |-> n]]>>

\* The first n bytes of one item.
ItemTake(it, n) ==
  IF it.tag = "lit" THEN [it EXCEPT !.v = SubSeq(@, 1, n)]
  ELSE IF it.tag = "aes" THEN [it EXCEPT !.v.n = n]
  ELSE [tag |-> "cut", v |-> [of |-> it, n |-> n]]

RECURSIVE Take(_, _)
\* buffer.subarray(0, n)
Take(bs, n) ==
  IF n <= 0 \/ bs = <<>> THEN <<>>
  ELSE IF ItemLen(bs[1]) <= n THEN <<bs[1]>> \o Take(Tail(bs), n - ItemLen(bs[1]))
  ELSE <<ItemTake(bs[1], n)>>

(***************************************************************************)
(* The instance: the fields of FortunaRNG.                                 *)
(***************************************************************************)
PoolIndex == 0..(NUM_POOLS - 1)

\* The fields as the constructor sets them before it seeds (lines 56-65).
NewInstance ==
  [ generatorKey     |-> Fill(KEY_SIZE_BYTES, 0),
    generatorCounter |-> [i \in 1..BLOCK_SIZE_BYTES |-> 0],
    pools            |-> [p \in PoolIndex |-> Empty],
    reseedCount      |-> 0,
    lastReseedTime   |-> 0,
    minPoolSize      |-> POOL_SIZE,
    seeded           |-> FALSE ]

(***************************************************************************)
(* What a method call yields: the instance after it, the value returned,   *)
(* the error thrown ("" when none), the raw draws left unread, and the     *)
(* trace of the internal calls it made.                                    *)
(***************************************************************************)
NoErr == ""

Result(st, ret, err, raws, log) ==
  [st |-> st, ret |-> ret, err |-> err, raws |-> raws, log |-> log]

\* One internal call: the instance before and after it, its numeric argument,
\* its byte-string argument and what it returned.
Entry(ev, pre, post, n, data, out) ==
  [ev |-> ev, pre |-> pre, post |-> post, n |-> n, data |-> data, out |-> out]

(***************************************************************************)
(* The numbers a caller can pass to a public method.  A JavaScript number  *)
(* is an integer, a finite number that is not an integer, or NaN; one that *)
(* is not an integer is kept by the integer just below it.  An integer is  *)
(* high * 2^32 + floor with -2^31 <= floor < 2^31, so that integers beyond *)
(* 32 bits can be passed.                                                  *)
(***************************************************************************)
Num(k) == [kind |-> "int", floor |-> k, high |-> 0]

\* a number strictly between k and k + 1
Frac(k) == [kind |-> "frac", floor |-> k, high |-> 0]

NaN == [kind |-> "nan", floor |-> 0, high |-> 0]

\* the integer h * 2^32 + k
Big(h, k) == [kind |-> "int", floor |-> k, high |-> h]

IsIntegerAny(x) == TRUE

\* Number.isInteger(x)
IsInteger(x) == x.kind = "int"

\* x < a, x > a and x >= a for an integer a; every comparison with NaN is false
NumLess(x, a) == x.kind # "nan" /\ (x.high < 0 \/ (x.high = 0 /\ x.floor < a))

NumGreater(x, a) ==
  /\ x.kind # "nan"
  /\ \/ x.high > 0
     \/ x.high = 0 /\ (IF x.kind = "int" THEN x.floor > a ELSE x.floor >= a)

NumGeq(x, a) == x.kind # "nan" /\ (x.high > 0 \/ (x.high = 0 /\ x.floor >= a))

\* a > b for two integers
IntOver(a, b) == a.high > b.high \/ (a.high = b.high /\ a.floor > b.floor)

\* a + b and -a for two integers, the floors kept within 32 bits
IntSum(a, b) ==
  IF a.floor > 0 /\ b.floor > 2147483647 - a.floor
  THEN Big(a.high + b.high + 1, (a.floor - 2147483647 - 1) + (b.floor - 2147483647 - 1))
  ELSE IF a.floor < 0 /\ b.floor < (-2147483647 - 1) - a.floor
  THEN Big(a.high + b.high - 1, (a.floor + 2147483647 + 1) + (b.floor + 2147483647 + 1))
  ELSE Big(a.high + b.high, a.floor + b.floor)

IntNeg(a) == Big(-a.high, -a.floor)

\* blockEncrypt's checks (lines 170-176)
blockEncryptError(st) ==
  IF ~st.seeded /\ st.reseedCount = 0 THEN "Generator not seeded yet."
  ELSE IF ByteLen(st.generatorKey) # KEY_SIZE_BYTES THEN "Internal error: Invalid key size"
  ELSE NoErr

\* The block blockEncrypt returns: the cipher under the current key.
blockEncrypt(st, block) == Aes(st.generatorKey, block, BLOCK_SIZE_BYTES)

RECURSIVE BlockLoop(_, _, _)
\* for (i = 0; i < k; i++) { output += blockEncrypt(counter); incrementCounter() }
BlockLoop(st, k, output) ==
  IF k = 0 THEN [st |-> st, output |-> output]
  ELSE BlockLoop([st EXCEPT !.generatorCounter = incrementCounter(@)], k - 1,
                 Cat(output, blockEncrypt(st, st.generatorCounter)))

\* generateBlocks once its loop has run: g holds the instance and the output.
generateBlocksDone(st, k, g) ==
  Result(g.st, g.output, NoErr, <<>>,
         <<Entry("generateBlocks", st, g.st, k, Empty, g.output)>>)

generateBlocks(st, k) ==
  IF ~st.seeded
  THEN Result(st, Empty, "Generator must be seeded before generating data.", <<>>, <<>>)
  ELSE IF k <= 0 THEN Result(st, Empty, NoErr, <<>>, <<>>)
  ELSE IF blockEncryptError(st) # NoErr
  THEN Result(st, Empty, blockEncryptError(st), <<>>, <<>>)
  ELSE generateBlocksDone(st, k,
         IF k <= MaxLoopBlocks
         THEN BlockLoop(st, k, Empty)
         ELSE [st |-> [st EXCEPT !.generatorCounter = CounterAfter(@, k)],
               output |-> Aes(st.generatorKey, st.generatorCounter,
                              k * BLOCK_SIZE_BYTES)])

FloorBlocks(n) == n \div BLOCK_SIZE_BYTES

\* Math.ceil(n / BLOCK_SIZE_BYTES) for an integer n >= 0
CeilBlocks(n) == (n + BLOCK_SIZE_BYTES - 1) \div BLOCK_SIZE_BYTES

\* pseudoRandomData from line 232 on: generatedData is g1.ret, newKeyData is
\* g2.ret.
pseudoRandomDataRekey(st, n, g1, g2) ==
  IF g2.err # NoErr THEN Result(g2.st, Empty, g2.err, <<>>, g1.log \o g2.log)
  ELSE IF ByteLen(g2.ret) # KEY_SIZE_BYTES
  THEN Result(g2.st, Empty, "Internal error: new key size", <<>>, g1.log \o g2.log)
  ELSE Result([g2.st EXCEPT !.generatorKey = g2.ret], Take(g1.ret, n), NoErr, <<>>,
              g1.log \o g2.log
              \o <<Entry("pseudoRandomData", st,
                         [g2.st EXCEPT !.generatorKey = g2.ret], n, Empty,
                         Take(g1.ret, n))>>)

\* pseudoRandomData from line 231 on
pseudoRandomDataNewKey(st, n, g1) ==
  IF g1.err # NoErr THEN Result(g1.st, Empty, g1.err, <<>>, g1.log)
  ELSE pseudoRandomDataRekey(st, n, g1, generateBlocks(g1.st, 2))

pseudoRandomDataReturn(st, n, g1) ==
  Result(g1.st, Take(g1.ret, n), g1.err, <<>>,
         g1.log \o <<Entry("pseudoRandomData", st, g1.st, n, Empty, Take(g1.ret, n))>>)

pseudoRandomDataKeepKey(st, n) ==
  IF n < 0 \/ n > MAX_GENERATE_BYTES
  THEN Result(st, Empty, "Invalid number of bytes requested", <<>>, <<>>)
  ELSE IF n = 0 THEN Result(st, Empty, NoErr, <<>>, <<>>)
  ELSE pseudoRandomDataReturn(st, n, generateBlocks(st, CeilBlocks(n)))

pseudoRandomDataRekeyOnZero(st, n) ==
  IF n < 0 \/ n > MAX_GENERATE_BYTES
  THEN Result(st, Empty, "Invalid number of bytes requested", <<>>, <<>>)
  ELSE pseudoRandomDataNewKey(st, n, generateBlocks(st, CeilBlocks(n)))

pseudoRandomData(st, n) ==
  IF n < 0 \/ n > MAX_GENERATE_BYTES
  THEN Result(st, Empty, "Invalid number of bytes requested", <<>>, <<>>)
  ELSE IF n = 0 THEN Result(st, Empty, NoErr, <<>>, <<>>)
  ELSE pseudoRandomDataNewKey(st, n, generateBlocks(st, CeilBlocks(n)))

reseedNoHash(st, seedData) ==
  LET post == [st EXCEPT
                 !.generatorKey = Cat(st.generatorKey, seedData),
                 !.generatorCounter = incrementCounter(@),
                 !.seeded = TRUE,
                 !.reseedCount = @ + 1]
  IN  Result(post, Empty, NoErr, <<>>,
             <<Entry("reseed", st, post, 0, seedData, Empty)>>)

reseedKeepCount(st, seedData) ==
  LET post == [st EXCEPT
                 !.generatorKey = hash(Cat(st.generatorKey, seedData)),
                 !.generatorCounter = incrementCounter(@),
                 !.seeded = TRUE]
  IN  Result(post, Empty, NoErr, <<>>,
             <<Entry("reseed", st, post, 0, seedData, Empty)>>)

reseedResetCounter(st, seedData) ==
  LET post == [st EXCEPT
                 !.generatorKey = hash(Cat(st.generatorKey, seedData)),
                 !.generatorCounter = [i \in 1..BLOCK_SIZE_BYTES |-> 0],
                 !.seeded = TRUE,
                 !.reseedCount = @ + 1]
  IN  Result(post, Empty, NoErr, <<>>,
             <<Entry("reseed", st, post, 0, seedData, Empty)>>)

reseed(st, seedData) ==
  LET post == [st EXCEPT
                 !.generatorKey = hash(Cat(st.generatorKey, seedData)),
                 !.generatorCounter = incrementCounter(@),
                 !.seeded = TRUE,
                 !.reseedCount = @ + 1]
  IN  Result(post, Empty, NoErr, <<>>,
             <<Entry("reseed", st, post, 0, seedData, Empty)>>)

seedFromDataAnyLength(st, seedData, clock) ==
  LET r == reseed(st, seedData)
      post == [r.st EXCEPT !.seeded = TRUE, !.lastReseedTime = clock]
  IN  Result(post, Empty, NoErr, <<>>,
             r.log \o <<Entry("seedFromData", st, post, clock, seedData, Empty)>>)

seedFromDataKeepTime(st, seedData, clock) ==
  IF ByteLen(seedData) # SEED_LENGTH
  THEN Result(st, Empty, "Seed data must be a Buffer of exactly 64 bytes.", <<>>, <<>>)
  ELSE LET r == reseed(st, seedData)
           post == [r.st EXCEPT !.seeded = TRUE]
       IN  Result(post, Empty, NoErr, <<>>,
                  r.log \o <<Entry("seedFromData", st, post, clock, seedData, Empty)>>)

seedFromData(st, seedData, clock) ==
  IF ByteLen(seedData) # SEED_LENGTH
  THEN Result(st, Empty, "Seed data must be a Buffer of exactly 64 bytes.", <<>>, <<>>)
  ELSE LET r == reseed(st, seedData)
           post == [r.st EXCEPT !.seeded = TRUE, !.lastReseedTime = clock]
       IN  Result(post, Empty, NoErr, <<>>,
                  r.log \o <<Entry("seedFromData", st, post, clock, seedData, Empty)>>)

addRandomEventNoLength(st, sourceId, poolId, eventData) ==
  IF NumLess(sourceId, 0) \/ NumGreater(sourceId, 255) \/ ~IsInteger(sourceId)
  THEN Result(st, Empty, "Invalid sourceId", <<>>, <<>>)
  ELSE IF NumLess(poolId, 0) \/ NumGeq(poolId, NUM_POOLS) \/ ~IsInteger(poolId)
  THEN Result(st, Empty, "Invalid poolId", <<>>, <<>>)
  ELSE IF ByteLen(eventData) < 1 \/ ByteLen(eventData) > 32
  THEN Result(st, Empty, "Invalid eventData length", <<>>, <<>>)
  ELSE Result([st EXCEPT !.pools[poolId.floor] =
                              Cat(@, Cat(Lit(<<sourceId.floor>>), eventData))],
              Empty, NoErr, <<>>, <<>>)

\* sourceId and poolId are JavaScript numbers, eventData a byte string.
addRandomEventAlsoPool0(st, sourceId, poolId, eventData) ==
  IF NumLess(sourceId, 0) \/ NumGreater(sourceId, 255) \/ ~IsInteger(sourceId)
  THEN Result(st, Empty, "Invalid sourceId", <<>>, <<>>)
  ELSE IF NumLess(poolId, 0) \/ NumGeq(poolId, NUM_POOLS) \/ ~IsInteger(poolId)
  THEN Result(st, Empty, "Invalid poolId", <<>>, <<>>)
  ELSE LET eventLen == ByteLen(eventData)
       IN  IF eventLen < 1 \/ eventLen > 32
           THEN Result(st, Empty, "Invalid eventData length", <<>>, <<>>)
           ELSE LET encodedEvent == Cat(Lit(<<sourceId.floor, eventLen>>), eventData)
                    post == [st EXCEPT !.pools[poolId.floor] = Cat(@, encodedEvent),
                                       !.pools[0] = Cat(@, encodedEvent)]
                IN  Result(post, Empty, NoErr, <<>>,
                           <<Entry("addRandomEvent", st, post, poolId.floor,
                                   eventData, Empty)>>)

addRandomEvent(st, sourceId, poolId, eventData) ==
  IF NumLess(sourceId, 0) \/ NumGreater(sourceId, 255) \/ ~IsInteger(sourceId)
  THEN Result(st, Empty, "Invalid sourceId", <<>>, <<>>)
  ELSE IF NumLess(poolId, 0) \/ NumGeq(poolId, NUM_POOLS) \/ ~IsInteger(poolId)
  THEN Result(st, Empty, "Invalid poolId", <<>>, <<>>)
  ELSE LET eventLen == ByteLen(eventData)
       IN  IF eventLen < 1 \/ eventLen > 32
           THEN Result(st, Empty, "Invalid eventData length", <<>>, <<>>)
           ELSE LET encodedEvent == Cat(Lit(<<sourceId.floor, eventLen>>), eventData)
                    post == [st EXCEPT !.pools[poolId.floor] = Cat(@, encodedEvent)]
                IN  Result(post, Empty, NoErr, <<>>,
                           <<Entry("addRandomEvent", st, post, poolId.floor,
                                   eventData, Empty)>>)

(***************************************************************************)
(* JavaScript integer arithmetic used by the reseed loop.                  *)
(***************************************************************************)
ShiftLeftNone(i) == 1

\* 1 << i on 32-bit integers, 0 <= i <= 31
ShiftLeft1(i) == IF i = 31 THEN (-2147483647) - 1 ELSE 2 ^ i

\* a % b of JavaScript for a >= 0 and b # 0: the sign of the dividend.
JsRem(a, b) ==
  IF b > 0 THEN a % b
  ELSE IF a <= -(b + 1) THEN a
  ELSE a % (-b)

(***************************************************************************)
(* Wide (limb) arithmetic for the sampler: w = hi * 65536 + lo.            *)
(***************************************************************************)
\* w % r for 0 < r <= 32768
WideMod(w, r) == (((w.hi % r) * (65536 % r)) + (w.lo % r)) % r

\* w - x for 0 <= x < 65536 <= w
WideSub(w, x) ==
  IF w.lo >= x THEN [hi |-> w.hi, lo |-> w.lo - x]
  ELSE [hi |-> w.hi - 1, lo |-> w.lo + 65536 - x]

\* a >= b
WideGeq(a, b) == a.hi > b.hi \/ (a.hi = b.hi /\ a.lo >= b.lo)

\* a - b for a >= b, and 2 * r
WideMinus(a, b) ==
  IF a.lo >= b.lo THEN [hi |-> a.hi - b.hi, lo |-> a.lo - b.lo]
  ELSE [hi |-> a.hi - b.hi - 1, lo |-> a.lo + 65536 - b.lo]

WideDouble(r) == [hi |-> 2 * r.hi + (2 * r.lo) \div 65536, lo |-> (2 * r.lo) % 65536]

RECURSIVE WideRemBy(_, _)
\* w % r for wide w >= 0 and r > 0: what is left of w % 2r, less r if need be
WideRemHalf(t, r) == IF WideGeq(t, r) THEN WideMinus(t, r) ELSE t

WideRemBy(w, r) ==
  IF ~WideGeq(w, r) THEN w ELSE WideRemHalf(WideRemBy(w, WideDouble(r)), r)

\* An integer >= 0 as a wide number, and a wide number below 2^32 as an integer.
IntAsWide(x) == [hi |-> x.high * 65536 + x.floor \div 65536, lo |-> x.floor % 65536]

WideAsInt(w) ==
  IF w.hi >= 32768 THEN Big(1, (w.hi - 65536) * 65536 + w.lo)
  ELSE Num(w.hi * 65536 + w.lo)

\* buffer.readUInt32BE(0) of the four bytes b
readUInt32BE(b) == [hi |-> b[1] * 256 + b[2], lo |-> b[3] * 256 + b[4]]

(***************************************************************************)
(* randomData and the sampler call each other (lines 262-266, 344-346).    *)
(* `raws` is what the cipher yields for the successive 4-byte reads of     *)
(* getRaw32; a call that needs more of them than it is given ends Starved. *)
(***************************************************************************)
Starved == "(no raw input left)"

RECURSIVE randomData(_, _, _, _)

\* getRaw32 once randomData(4) has yielded b
getRaw32Read(st, raws, b) ==
  IF b.err # NoErr THEN Result(b.st, 0, b.err, raws, b.log)
  ELSE IF raws = <<>> THEN Result(b.st, 0, Starved, raws, b.log)
  ELSE Result(b.st, readUInt32BE(raws[1]), NoErr, Tail(raws),
              b.log \o <<Entry("getRaw32", st, b.st, 0, Lit(raws[1]), b.ret)>>)

getRaw32Direct(st, clock, raws) == getRaw32Read(st, raws, pseudoRandomData(st, 4))

getRaw32(st, clock, raws) == getRaw32Read(st, raws, randomData(st, 4, clock, <<>>))

LimitWhole(range) == UINT32_MAX_COUNT

\* limit = UINT32_MAX_COUNT - (UINT32_MAX_COUNT % range)
LimitOf(range) == WideSub(UINT32_MAX_COUNT, WideMod(UINT32_MAX_COUNT, range))

RECURSIVE DrawLoop(_, _, _, _, _, _, _)
DrawTestNoReject(range, limit, min, clock, log, g) ==
  IF g.err # NoErr THEN Result(g.st, 0, g.err, g.raws, log \o g.log)
  ELSE Result(g.st, WideMod(g.ret, range) + min, NoErr, g.raws, log \o g.log)

\* while (rnd >= limit); return (rnd % range) + min, g being what getRaw32 yielded
DrawTest(range, limit, min, clock, log, g) ==
  IF g.err # NoErr THEN Result(g.st, 0, g.err, g.raws, log \o g.log)
  ELSE IF WideGeq(g.ret, limit)
  THEN DrawLoop(g.st, range, limit, min, clock, g.raws, log \o g.log)
  ELSE Result(g.st, WideMod(g.ret, range) + min, NoErr, g.raws, log \o g.log)

\* do { rnd = getRaw32() } ...
DrawLoop(st, range, limit, min, clock, raws, log) ==
  DrawTest(range, limit, min, clock, log, getRaw32(st, clock, raws))

generateInt32DrawFirst(st, min, max, clock, raws) ==
  IF ~IsInteger(min) \/ ~IsInteger(max)
  THEN Result(getRaw32(st, clock, raws).st, 0, "min and max must be integers.", raws, <<>>)
  ELSE IF min.floor > max.floor
  THEN Result(getRaw32(st, clock, raws).st, 0, "min cannot be greater than max.", raws, <<>>)
  ELSE IF min.floor = max.floor THEN Result(st, min.floor, NoErr, raws, <<>>)
  ELSE DrawLoop(st, max.floor - min.floor + 1,
                WideSub(UINT32_MAX_COUNT,
                        WideMod(UINT32_MAX_COUNT, max.floor - min.floor + 1)),
                min.floor, clock, raws, <<>>)

\* range = max - min + 1 and limit = UINT32_MAX_COUNT - (UINT32_MAX_COUNT % range)
\* as wide numbers, for a range of any size.
RangeOfWide(min, max) == IntAsWide(IntSum(IntSum(max, IntNeg(min)), Num(1)))

LimitOfWide(range) == WideMinus(UINT32_MAX_COUNT, WideRemBy(UINT32_MAX_COUNT, range))

RECURSIVE DrawLoopWide(_, _, _, _, _, _, _)
\* The loop for a range beyond 2^15; the value returned is a number.
DrawTestWide(range, limit, min, clock, log, g) ==
  IF g.err # NoErr THEN Result(g.st, 0, g.err, g.raws, log \o g.log)
  ELSE IF WideGeq(g.ret, limit)
  THEN DrawLoopWide(g.st, range, limit, min, clock, g.raws, log \o g.log)
  ELSE Result(g.st, IntSum(WideAsInt(WideRemBy(g.ret, range)), min), NoErr, g.raws,
              log \o g.log)

DrawLoopWide(st, range, limit, min, clock, raws, log) ==
  DrawTestWide(range, limit, min, clock, log, getRaw32(st, clock, raws))

\* Whether max - min + 1 is at most 2^15, the ranges kept as plain integers.
SmallRange(min, max) ==
  /\ min.high = 0 /\ max.high = 0
  /\ min.floor >= -32768 /\ max.floor <= 32767
  /\ max.floor - min.floor < 32768

\* min and max are JavaScript numbers.
generateInt32(st, min, max, clock, raws) ==
  IF ~IsInteger(min) \/ ~IsInteger(max)
  THEN Result(st, 0, "min and max must be integers.", raws, <<>>)
  ELSE IF IntOver(min, max)
  THEN Result(st, 0, "min cannot be greater than max.", raws, <<>>)
  ELSE IF min = max
  THEN Result(st, IF min.high = 0 THEN min.floor ELSE min, NoErr, raws, <<>>)
  ELSE IF SmallRange(min, max)
  THEN LET range == max.floor - min.floor + 1
       IN  DrawLoop(st, range, LimitOf(range), min.floor, clock, raws, <<>>)
  ELSE DrawLoopWide(st, RangeOfWide(min, max), LimitOfWide(RangeOfWide(min, max)),
                    min, clock, raws, <<>>)

RECURSIVE CollectPools(_, _, _)
CollectPoolsAfter(st, i, seedMaterial) ==
  IF i >= NUM_POOLS THEN [st |-> st, seed |-> seedMaterial]
  ELSE IF JsRem(st.reseedCount + 1, ShiftLeft1(i)) = 0
  THEN CollectPools([st EXCEPT !.pools[i] = Empty], i + 1,
                    Cat(seedMaterial, hash(st.pools[i])))
  ELSE CollectPools(st, i + 1, seedMaterial)

RECURSIVE CollectPoolsKeep(_, _, _)
CollectPoolsKeep(st, i, seedMaterial) ==
  IF i >= NUM_POOLS THEN [st |-> st, seed |-> seedMaterial]
  ELSE IF JsRem(st.reseedCount, ShiftLeft1(i)) = 0
  THEN CollectPoolsKeep(st, i + 1, Cat(seedMaterial, hash(st.pools[i])))
  ELSE CollectPoolsKeep(st, i + 1, seedMaterial)

\* for (i = 0; i < NUM_POOLS; i++) if (reseedCount % (1 << i) === 0) ...
CollectPools(st, i, seedMaterial) ==
  IF i >= NUM_POOLS THEN [st |-> st, seed |-> seedMaterial]
  ELSE IF JsRem(st.reseedCount, ShiftLeft1(i)) = 0
  THEN CollectPools([st EXCEPT !.pools[i] = Empty], i + 1,
                    Cat(seedMaterial, hash(st.pools[i])))
  ELSE CollectPools(st, i + 1, seedMaterial)

ReseedGatePoolOnly(st, clock) == ByteLen(st.pools[0]) >= st.minPoolSize

ReseedGateStrict(st, clock) ==
  /\ ByteLen(st.pools[0]) >= st.minPoolSize
  /\ clock - st.lastReseedTime > RESEED_INTERVAL_MS

\* The reseed check at the head of randomData (lines 307-323).
ReseedGate(st, clock) ==
  /\ ByteLen(st.pools[0]) >= st.minPoolSize
  /\ clock - st.lastReseedTime >= RESEED_INTERVAL_MS

\* The check once reseed(seedMaterial) has run (line 322 and the end of the if)
reseedCheckDone(st, clock, seedMaterial, r) ==
  Result([r.st EXCEPT !.lastReseedTime = clock], Empty, NoErr, <<>>,
         r.log \o <<Entry("reseedCheck", st, [r.st EXCEPT !.lastReseedTime = clock],
                          clock, seedMaterial, Empty)>>)

\* The check once the loop over the pools has run (line 321)
reseedCheckSeed(st, clock, c) == reseedCheckDone(st, clock, c.seed, reseed(c.st, c.seed))

reseedCheck(st, clock) ==
  IF ReseedGate(st, clock)
  THEN reseedCheckSeed(st, clock, CollectPools(st, 0, Empty))
  ELSE Result(st, Empty, NoErr, <<>>,
              <<Entry("reseedCheck", st, st, clock, Empty, Empty)>>)

RECURSIVE ChunkLoop(_, _, _, _, _, _)
\* The end of a turn of the chunk loop: e is what addRandomEvent yielded.
ChunkEvent(remaining, clock, raws, chunks, log, e) ==
  IF e.err # NoErr THEN Result(e.st, Empty, e.err, raws, log \o e.log)
  ELSE ChunkLoop(e.st, remaining, clock, raws, chunks, log \o e.log)

ChunkPayloadBetween(remaining, clock, chunks, log, p, d) ==
  IF d.err # NoErr THEN Result(d.st, Empty, d.err, p.raws, log \o d.log)
  ELSE IF remaining <= 0 THEN ChunkLoop(d.st, remaining, clock, p.raws, chunks, log \o d.log)
  ELSE ChunkEvent(remaining, clock, p.raws, chunks, log \o d.log,
                  addRandomEvent(d.st, Num(RESERVED_POOL_ID4), Num(p.ret), d.ret))

\* d is what pseudoRandomData(32) yielded, p what generateInt32(0, 31) did.
ChunkPayload(remaining, clock, chunks, log, p, d) ==
  IF d.err # NoErr THEN Result(d.st, Empty, d.err, p.raws, log \o d.log)
  ELSE ChunkEvent(remaining, clock, p.raws, chunks, log \o d.log,
                  addRandomEvent(d.st, Num(RESERVED_POOL_ID4), Num(p.ret), d.ret))

ChunkPool(remaining, clock, chunks, log, p) ==
  IF p.err # NoErr THEN Result(p.st, Empty, p.err, p.raws, log \o p.log)
  ELSE ChunkPayload(remaining, clock, chunks, log \o p.log, p,
                    pseudoRandomData(p.st, 32))

\* c is the chunk: what pseudoRandomData(chunkSize) yielded.  The trace keeps
\* the loop's variables after lines 340-341: `remaining`, and `chunks` before
\* and after the push.
ChunkDrawn(remaining, clock, raws, chunks, log, c) ==
  IF c.err # NoErr THEN Result(c.st, Empty, c.err, raws, log \o c.log)
  ELSE ChunkPool(remaining, clock, chunks \o c.ret,
                 log \o c.log \o <<Entry("chunk", c.st, c.st, remaining, chunks, c.ret)>>,
                 generateInt32(c.st, Num(0), Num(31), clock, raws))

ChunkSizeWhole(remaining) == remaining

\* Math.min(remaining, MAX_GENERATE_BYTES)
ChunkSize(remaining) ==
  IF remaining < MAX_GENERATE_BYTES THEN remaining ELSE MAX_GENERATE_BYTES

\* while (remaining > 0) { chunk; self-feed event } (lines 333-348)
ChunkLoop(st, remaining, clock, raws, chunks, log) ==
  IF remaining <= 0 THEN Result(st, chunks, NoErr, raws, log)
  ELSE ChunkDrawn(remaining - ChunkSize(remaining), clock, raws, chunks, log,
                  pseudoRandomData(st, ChunkSize(remaining)))

\* randomData's return of pseudoRandomData(n) (line 330)
randomDataReturn(raws, log, g) == Result(g.st, g.ret, g.err, raws, log \o g.log)

\* The trace of a request up to the end of its reseed check.
RequestLog(st, n, chk) == <<Entry("randomData", st, chk.st, n, Empty, Empty)>> \o chk.log

\* randomData after its reseed check, chk (lines 325-349)
randomDataChecked(st, n, clock, raws, chk) ==
  IF ~chk.st.seeded
  THEN Result(chk.st, Empty, "Fortuna PRNG has not been seeded yet.", raws,
              RequestLog(st, n, chk))
  ELSE IF n <= MAX_GENERATE_BYTES
  THEN randomDataReturn(raws, RequestLog(st, n, chk), pseudoRandomData(chk.st, n))
  ELSE ChunkLoop(chk.st, n, clock, raws, Empty, RequestLog(st, n, chk))

randomData(st, n, clock, raws) ==
  randomDataChecked(st, n, clock, raws, reseedCheck(st, clock))

(***************************************************************************)
(* The inputs the environment supplies.                                    *)
(***************************************************************************)
Batchers == {"b1", "b2"}
Idle == "idle"

\* What four cipher bytes can read as: 0, 3 and 2^32 - 1.
RawBytes == {<<0, 0, 0, 0>>, <<0, 0, 0, 3>>, <<255, 255, 255, 255>>}

RECURSIVE SeqsUpTo(_, _)
SeqsUpTo(S, n) ==
  IF n = 0 THEN {<<>>}
  ELSE LET shorter == SeqsUpTo(S, n - 1)
       IN  shorter \cup {Append(q, x) : q \in {r \in shorter : Len(r) = n - 1}, x \in S}

RawSeqs == SeqsUpTo(RawBytes, MaxRawDraws)

\* The reads that pick the pool of a self-feed event: pool 0 and pool 31.
ChunkRaws == SeqsUpTo({<<0, 0, 0, 0>>, <<255, 255, 255, 255>>}, MaxRawDraws)

\* Reads around the limit of a range of 6, 2^32 - 4: 2^32 - 5 is the last
\* value accepted, 2^32 - 4 the first refused.
SampleRaws == SeqsUpTo({<<0, 0, 0, 3>>, <<255, 255, 255, 251>>,
                        <<255, 255, 255, 252>>, <<255, 255, 255, 255>>}, MaxRawDraws)

\* The reads of a batch's draws: two values the sampler accepts.
BatchRaws == {<<x>> : x \in {<<0, 0, 0, 0>>, <<0, 0, 0, 3>>}}

RequestSizes == {0, 16, 17}
ChunkedSizes == {-1, 0, 4, MAX_GENERATE_BYTES + 1}
\* The numbers of a set of integers.
Nums(S) == {Num(k) : k \in S}

Ranges == {<<Num(1), Num(6)>>, <<Num(3), Num(3)>>}
EventPools == Nums({0, 1})
EventLengths == {30}
SeedLengths == {SEED_LENGTH}
\* Seeds one byte short of, at, and one byte over the seed length, and none.
SeedArgLengths == {0, SEED_LENGTH - 1, SEED_LENGTH, SEED_LENGTH + 1}
\* What crypto.randomBytes fills the default seed with.
OsBytes == {7, 9}

\* Arguments at and beyond the edges of what the public methods accept.
ArgSources == {Num(-1), Num(0), Num(255), Num(256), Frac(1), NaN}
ArgPools == {Num(-1), Num(0), Num(31), Num(32), Frac(0), NaN}
ArgLengths == {0, 1, 32, 33}
ArgRanges == {<<Num(1), Num(6)>>, <<Num(-2), Num(2)>>, <<Num(3), Num(3)>>,
              <<Num(6), Num(1)>>, <<Frac(1), Num(6)>>, <<Num(1), NaN>>}
ArgCounts == {Num(-1), Num(0), Num(2), Frac(1)}

\* The ranges 0..k of every size from 2 to MaxSpan + 1, and of size 2^15.
SpanRanges == {<<Num(0), Num(k)>> : k \in (1..MaxSpan) \cup {32767}}
\* One read that every range accepts, alone or after a read of 2^32 - 1.
SpanRaws == {<<<<0, 0, 0, 3>>>>, <<<<255, 255, 255, 255>>, <<0, 0, 0, 3>>>>}

\* A call used up exactly the raw draws it was given.
Fed(r) == r.raws = <<>> /\ r.err # Starved

VARIABLES
  rng,       \* the FortunaRNG instance
  now,       \* Date.now()
  last,      \* the last call made on the instance, and by whom
  ops,       \* calls made so far that draw from the generator
  batch,     \* per batch caller: where its generateInt32Batch stands
  mutex,     \* the Mutex: its owner and the callers queued for it
  cpu,       \* who runs synchronous code now (JavaScript runs to completion)
  shadow,    \* the owner's batch as it runs when it never suspends
  poolReseeds, \* the pool-triggered reseeds done so far
  reseeded,  \* whether seedFromData was called after the constructor
  timers,    \* the pending timers of the internal producers, where they are followed
  webRng,    \* the FortunaRNG instance of js/FortunaRNG.js, where it is followed
  webCalls,  \* per caller: where its generateRandomBytes stands
  statRng    \* the FortunaRNG instance of js/statisticalTests.js, where it is followed

vars == <<rng, now, last, ops, batch, mutex, cpu, shadow, poolReseeds, reseeded,
          timers, webRng, webCalls, statRng>>

\* The value of a variable in a specification that does not follow it.
Absent == "absent"

Call(op, caller, args, clock, pre, r) ==
  [op |-> op, caller |-> caller, args |-> args, clock |-> clock, pre |-> pre,
   ret |-> r.ret, err |-> r.err, log |-> r.log]

\* The pool-triggered reseeds in a trace.
PoolReseedsIn(log) ==
  Cardinality({j \in 1..Len(log) :
                 log[j].ev = "reseedCheck" /\ log[j].post # log[j].pre})

NoBatch == [pc |-> Idle, count |-> 0, min |-> Num(0), max |-> Num(0), i |-> 0,
            results |-> <<>>, wakeAt |-> 0]

\* foreign: whether another caller drew from the generator during the batch.
NoShadow == [owner |-> Idle, rng |-> NewInstance, results |-> <<>>, slept |-> 0,
             returned |-> <<>>, done |-> FALSE, foreign |-> FALSE]

\* new FortunaRNG(seed) with a seed of 64 zero bytes
Constructed == seedFromData(NewInstance, Fill(SEED_LENGTH, 0), StartTime)

Init ==
  /\ now = StartTime
  /\ rng = Constructed.st
  /\ last = Call("new", "main", <<SEED_LENGTH>>, StartTime, NewInstance, Constructed)
  /\ ops = 0
  /\ batch = [b \in Batchers |-> NoBatch]
  /\ mutex = [owner |-> Idle, queue |-> <<>>]
  /\ cpu = Idle
  /\ shadow = NoShadow
  /\ poolReseeds = 0
  /\ reseeded = FALSE
  /\ timers = Absent
  /\ webRng = Absent
  /\ webCalls = Absent
  /\ statRng = Absent

(***************************************************************************)
(* The clock.  It moves to the next instant at which something can change: *)
(* the reseed interval's end (and the millisecond before it) and the wake  *)
(* time of a sleeping batch.                                               *)
(***************************************************************************)
Instants(early) ==
  {rng.lastReseedTime + RESEED_INTERVAL_MS - e : e \in early}
  \cup {batch[b].wakeAt : b \in {c \in Batchers : batch[c].pc = "sleeping"}}

Tick(early, until) ==
  \E t \in Instants(early) :
    /\ t > now
    /\ t <= until
    /\ now' = t
    /\ shadow' = IF shadow.owner # Idle /\ batch[shadow.owner].pc = "sleeping"
                 THEN [shadow EXCEPT !.slept = @ + (t - now)]
                 ELSE shadow
    /\ UNCHANGED <<rng, last, ops, batch, mutex, cpu, poolReseeds, reseeded,
                   timers, webRng, webCalls, statRng>>

(***************************************************************************)
(* Calls from a caller's own synchronous code.                             *)
(***************************************************************************)
\* addRandomEvent is called while the pool holds fewer than `cap` bytes.
CallAddRandomEvent(sources, pools, lengths, cap) ==
  /\ cpu = Idle
  /\ \E sourceId \in sources, poolId \in pools, len \in lengths :
       \E r \in {addRandomEvent(rng, sourceId, poolId, Fill(len, 170))} :
         /\ r.err = NoErr => ByteLen(rng.pools[poolId.floor]) < cap
         /\ rng' = r.st
         /\ last' = Call("addRandomEvent", "main", <<sourceId, poolId, len>>, now, rng, r)
  /\ UNCHANGED <<now, ops, batch, mutex, cpu, shadow, poolReseeds, reseeded,
                 timers, webRng, webCalls, statRng>>

CallRandomData(sizes, rawSeqs, budget) ==
  /\ cpu = Idle
  /\ ops < budget
  /\ \E n \in sizes, raws \in rawSeqs :
       \E r \in {randomData(rng, n, now, raws)} :
         /\ Fed(r)
         /\ rng' = r.st
         /\ last' = Call("randomData", "main", <<n>>, now, rng, r)
         /\ poolReseeds' = poolReseeds + PoolReseedsIn(r.log)
  /\ ops' = ops + 1
  /\ shadow' = IF shadow.owner # Idle /\ ~shadow.done
               THEN [shadow EXCEPT !.foreign = TRUE]
               ELSE shadow
  /\ UNCHANGED <<now, batch, mutex, cpu, reseeded, timers, webRng, webCalls, statRng>>

CallGenerateInt32(ranges, rawSeqs, budget) ==
  /\ cpu = Idle
  /\ ops < budget
  /\ \E mm \in ranges, raws \in rawSeqs :
       \E r \in {generateInt32(rng, mm[1], mm[2], now, raws)} :
         /\ Fed(r)
         /\ rng' = r.st
         /\ last' = Call("generateInt32", "main", mm, now, rng, r)
         /\ poolReseeds' = poolReseeds + PoolReseedsIn(r.log)
  /\ ops' = ops + 1
  /\ UNCHANGED <<now, batch, mutex, cpu, shadow, reseeded,
                 timers, webRng, webCalls, statRng>>

CallSeedFromData(lengths, budget) ==
  /\ cpu = Idle
  /\ ops < budget
  /\ \E len \in lengths :
       \E r \in {seedFromData(rng, Fill(len, 1), now)} :
         /\ rng' = r.st
         /\ last' = Call("seedFromData", "main", <<len>>, now, rng, r)
         /\ reseeded' = (reseeded \/ r.err = NoErr)
  /\ ops' = ops + 1
  /\ UNCHANGED <<now, batch, mutex, cpu, shadow, poolReseeds,
                 timers, webRng, webCalls, statRng>>

(***************************************************************************)
(* generateInt32Batch (lines 412-446).                                     *)
(***************************************************************************)
SLEEP_MS == 1

\* What generateInt32Batch does before it asks for the mutex (lines 413-430).
BatchEntryNoFastPath(count, min, max) ==
  IF ~IsInteger(count) \/ NumLess(count, 0)
  THEN Result(rng, <<>>, "count must be a non-negative integer.", <<>>, <<>>)
  ELSE IF count.floor = 0 THEN Result(rng, <<>>, NoErr, <<>>, <<>>)
  ELSE IF ~IsInteger(min) \/ ~IsInteger(max)
  THEN Result(rng, <<>>, "min and max must be integers.", <<>>, <<>>)
  ELSE IF min.floor > max.floor
  THEN Result(rng, <<>>, "min cannot be greater than max.", <<>>, <<>>)
  ELSE Result(rng, <<>>, "(pending)", <<>>, <<>>)

\* count, min and max are JavaScript numbers.
BatchEntry(count, min, max) ==
  IF ~IsInteger(count) \/ NumLess(count, 0)
  THEN Result(rng, <<>>, "count must be a non-negative integer.", <<>>, <<>>)
  ELSE IF count.floor = 0 THEN Result(rng, <<>>, NoErr, <<>>, <<>>)
  ELSE IF ~IsInteger(min) \/ ~IsInteger(max)
  THEN Result(rng, <<>>, "min and max must be integers.", <<>>, <<>>)
  ELSE IF IntOver(min, max)
  THEN Result(rng, <<>>, "min cannot be greater than max.", <<>>, <<>>)
  ELSE IF min = max
  THEN Result(rng, [j \in 1..count.floor |-> min.floor], NoErr, <<>>, <<>>)
  ELSE Result(rng, <<>>, "(pending)", <<>>, <<>>)

BatchCall(b, counts, ranges) ==
  /\ cpu = Idle
  /\ batch[b].pc = Idle
  /\ ops < MaxBatchOps
  /\ ops' = ops + 1
  /\ \E count \in counts, mm \in ranges :
       \E r \in {BatchEntry(count, mm[1], mm[2])} :
         IF r.err = "(pending)"
         THEN /\ batch' = [batch EXCEPT ![b] =
                   [NoBatch EXCEPT !.pc = "waiting", !.count = count.floor,
                                   !.min = mm[1], !.max = mm[2]]]
              /\ mutex' = [mutex EXCEPT !.queue = Append(@, b)]
              /\ UNCHANGED last
         ELSE /\ last' = Call("generateInt32Batch", b, <<count, mm[1], mm[2]>>, now, rng, r)
              /\ UNCHANGED <<batch, mutex>>
  /\ UNCHANGED <<rng, now, cpu, shadow, poolReseeds, reseeded,
                 timers, webRng, webCalls, statRng>>

MutexAlwaysFree == TRUE

\* mutex.runExclusive lets one callback run at a time, in the order of asking.
MutexFree == mutex.owner = Idle

BatchAcquire(b) ==
  /\ cpu = Idle
  /\ batch[b].pc = "waiting"
  /\ MutexFree
  /\ mutex.queue # <<>> /\ Head(mutex.queue) = b
  /\ mutex' = [owner |-> b, queue |-> Tail(mutex.queue)]
  /\ batch' = [batch EXCEPT ![b].pc = "running"]
  /\ cpu' = b
  /\ shadow' = [NoShadow EXCEPT !.owner = b, !.rng = rng]
  /\ UNCHANGED <<rng, now, last, ops, poolReseeds, reseeded,
                 timers, webRng, webCalls, statRng>>

\* The cipher is a function: a block both runs read has the same bytes in both.
SameCipher(logA, logB) ==
  \A j \in 1..Len(logA), k \in 1..Len(logB) :
    (logA[j].ev = "getRaw32" /\ logB[k].ev = "getRaw32" /\ logA[j].out = logB[k].out)
      => logA[j].data = logB[k].data

\* One turn of the loop: results[i] = generateInt32(min, max), then the sleep
\* every YIELD_EVERY turns.  The shadow run makes the same turn on its own
\* instance, with the clock it would read had the batch never slept.
BatchDraw(b) ==
  /\ cpu = b
  /\ batch[b].pc = "running"
  /\ batch[b].i < batch[b].count
  /\ \E raws \in BatchRaws, sraws \in BatchRaws :
       \E r \in {generateInt32(rng, batch[b].min, batch[b].max, now, raws)},
          s \in {generateInt32(shadow.rng, batch[b].min, batch[b].max,
                               now - shadow.slept, sraws)} :
         /\ Fed(r) /\ Fed(s) /\ SameCipher(r.log, s.log)
         /\ rng' = r.st
         /\ shadow' = [shadow EXCEPT !.rng = s.st, !.results = Append(@, s.ret)]
         /\ last' = Call("generateInt32", b, <<batch[b].min, batch[b].max>>, now, rng, r)
         /\ poolReseeds' = poolReseeds + PoolReseedsIn(r.log)
         /\ batch' = [batch EXCEPT
              ![b].results = Append(@, r.ret),
              ![b].i = @ + 1,
              ![b].pc = IF batch[b].i % YIELD_EVERY = 0 THEN "sleeping" ELSE "running",
              ![b].wakeAt = IF batch[b].i % YIELD_EVERY = 0 THEN now + SLEEP_MS ELSE @]
  /\ cpu' = IF batch[b].i % YIELD_EVERY = 0 THEN Idle ELSE b
  /\ UNCHANGED <<now, ops, mutex, reseeded, timers, webRng, webCalls, statRng>>

\* sleep(): the 1 ms timer has fired and the loop goes on.
BatchWake(b) ==
  /\ cpu = Idle
  /\ batch[b].pc = "sleeping"
  /\ now >= batch[b].wakeAt
  /\ batch' = [batch EXCEPT ![b].pc = "running"]
  /\ cpu' = b
  /\ UNCHANGED <<rng, now, last, ops, mutex, shadow, poolReseeds, reseeded,
                 timers, webRng, webCalls, statRng>>

BatchReturnEarly(b) ==
  /\ cpu = b
  /\ batch[b].pc = "running"
  /\ batch[b].i + 1 = batch[b].count
  /\ last' = Call("generateInt32Batch", b,
                  <<Num(batch[b].count), batch[b].min, batch[b].max>>, now, rng,
                  Result(rng, batch[b].results, NoErr, <<>>, <<>>))
  /\ shadow' = [shadow EXCEPT !.returned = batch[b].results, !.done = TRUE]
  /\ mutex' = [mutex EXCEPT !.owner = Idle]
  /\ batch' = [batch EXCEPT ![b] = NoBatch]
  /\ cpu' = Idle
  /\ UNCHANGED <<rng, now, ops, poolReseeds, reseeded, timers, webRng, webCalls, statRng>>

BatchReturn(b) ==
  /\ cpu = b
  /\ batch[b].pc = "running"
  /\ batch[b].i = batch[b].count
  /\ last' = Call("generateInt32Batch", b,
                  <<Num(batch[b].count), batch[b].min, batch[b].max>>, now, rng,
                  Result(rng, batch[b].results, NoErr, <<>>, <<>>))
  /\ shadow' = [shadow EXCEPT !.returned = batch[b].results, !.done = TRUE]
  /\ mutex' = [mutex EXCEPT !.owner = Idle]
  /\ batch' = [batch EXCEPT ![b] = NoBatch]
  /\ cpu' = Idle
  /\ UNCHANGED <<rng, now, ops, poolReseeds, reseeded, timers, webRng, webCalls, statRng>>

(***************************************************************************)
(* Spec: one caller making the calls addRandomEvent, randomData and        *)
(* seedFromData.                                                           *)
(* SpecChunk: randomData with requests above 1 MiB, and generateInt32.     *)
(* SpecBatch: two batch callers, with a third caller reading 4 bytes and   *)
(* a producer submitting events while they run.                            *)
(***************************************************************************)
Next ==
  \/ Tick({0, 1}, StartTime + Horizon)
  \/ CallAddRandomEvent({Num(0)}, EventPools, EventLengths, MaxPoolBytes)
  \/ CallRandomData(RequestSizes, {<<>>}, MaxOps)
  \/ CallSeedFromData(SeedLengths, MaxOps)

Spec == Init /\ [][Next]_vars

NextChunk ==
  \/ Tick({0}, StartTime + Horizon)
  \/ CallAddRandomEvent({Num(0)}, {Num(0)}, EventLengths, POOL_SIZE)
  \/ CallRandomData(ChunkedSizes, ChunkRaws, MaxChunkOps)
  \/ CallGenerateInt32(Ranges, RawSeqs, MaxChunkOps)

SpecChunk == Init /\ [][NextChunk]_vars

NextBatch ==
  \/ Tick({0}, StartTime + Horizon)
  \/ CallAddRandomEvent({Num(0)}, {Num(0)}, EventLengths, POOL_SIZE)
  \/ CallRandomData({4}, {<<>>}, MaxBatchOps)
  \/ \E b \in Batchers : BatchCall(b, {Num(2)}, {<<Num(1), Num(6)>>})
  \/ \E b \in Batchers : BatchAcquire(b)
  \/ \E b \in Batchers : BatchDraw(b)
  \/ \E b \in Batchers : BatchWake(b)
  \/ \E b \in Batchers : BatchReturn(b)

SpecBatch == Init /\ [][NextBatch]_vars

(***************************************************************************)
(* SpecSched: the reseed schedule far into a run.  It starts from the      *)
(* instance as it is after any number of rounds, a round being: an event   *)
(* into each of the first pools (two into pool 0, which fills it to 64     *)
(* bytes), 100 ms, and a randomData(0), which reseeds.                     *)
(***************************************************************************)
SchedPools == 0..5

RECURSIVE Feed(_, _)
\* The pools p..5 each given one more event.
Feed(st, p) ==
  IF p \notin SchedPools THEN st
  ELSE Feed(addRandomEvent(st, Num(0), Num(p), Fill(IF p = 0 THEN 30 ELSE 1, 170)).st, p + 1)

Round(st, clock) ==
  randomData(Feed(Feed(st, 0), 0), 0, clock + RESEED_INTERVAL_MS, <<>>).st

RECURSIVE AfterRounds(_)
AfterRounds(j) ==
  IF j = 0 THEN Constructed.st
  ELSE CHOOSE st \in { Round(before, StartTime + (j - 1) * RESEED_INTERVAL_MS) :
                         before \in {AfterRounds(j - 1)} } : TRUE

InitSched ==
  \E j \in 0..MaxRounds :
    /\ now = StartTime + j * RESEED_INTERVAL_MS
    /\ rng = Feed(AfterRounds(j), 1)
    /\ last = Call("new", "main", <<SEED_LENGTH>>, StartTime, NewInstance, Constructed)
    /\ ops = 0
    /\ batch = [b \in Batchers |-> NoBatch]
    /\ mutex = [owner |-> Idle, queue |-> <<>>]
    /\ cpu = Idle
    /\ shadow = NoShadow
    /\ poolReseeds = j
    /\ reseeded = FALSE
    /\ timers = Absent
    /\ webRng = Absent
    /\ webCalls = Absent
    /\ statRng = Absent

NextSched ==
  \/ Tick({0}, now + RESEED_INTERVAL_MS)
  \/ CallAddRandomEvent({Num(0)}, {Num(0)}, EventLengths, POOL_SIZE)
  \/ CallRandomData({0, 4}, {<<>>}, MaxSchedOps)

SpecSched == InitSched /\ [][NextSched]_vars

(***************************************************************************)
(* SpecArgs: addRandomEvent called with arguments at and beyond the edges   *)
(* of what it accepts.                                                     *)
(***************************************************************************)
NextArgs ==
  \/ CallAddRandomEvent(ArgSources, {Num(0)}, EventLengths, MaxArgPoolBytes)
  \/ CallAddRandomEvent({Num(0)}, ArgPools, EventLengths, MaxArgPoolBytes)
  \/ CallAddRandomEvent({Num(255)}, {Num(1)}, ArgLengths, MaxArgPoolBytes)

SpecArgs == Init /\ [][NextArgs]_vars

\* SpecSample: generateInt32 with valid and invalid ranges and with reads on
\* both sides of the limit, while a producer fills pool 0.
NextSample ==
  \/ Tick({0}, StartTime + Horizon)
  \/ CallAddRandomEvent({Num(0)}, {Num(0)}, EventLengths, POOL_SIZE)
  \/ CallGenerateInt32(ArgRanges, SampleRaws, MaxArgOps)

SpecSample == Init /\ [][NextSample]_vars

\* SpecRanges: generateInt32 over ranges of many sizes.
NextRanges ==
  \/ Tick({0}, StartTime + Horizon)
  \/ CallGenerateInt32(SpanRanges, SpanRaws, MaxArgOps)

SpecRanges == Init /\ [][NextRanges]_vars

\* SpecBatchArgs: two callers of generateInt32Batch and one of generateInt32,
\* with such arguments.
NextBatchArgs ==
  \/ Tick({0}, StartTime + Horizon)
  \/ CallGenerateInt32(ArgRanges, BatchRaws, MaxArgOps)
  \/ BatchCall("b1", ArgCounts, ArgRanges)
  \/ BatchCall("b2", {Num(2)}, Ranges)
  \/ \E b \in Batchers : BatchAcquire(b)
  \/ \E b \in Batchers : BatchDraw(b)
  \/ \E b \in Batchers : BatchWake(b)
  \/ \E b \in Batchers : BatchReturn(b)

SpecBatchArgs == Init /\ [][NextBatchArgs]_vars

(***************************************************************************)
(* The constructor and seedFromData over seeds of every length around 64.  *)
(* The run starts inside new FortunaRNG(seed), after the fields got their  *)
(* first values (lines 56-65) and before seedFromData (line 67); a         *)
(* constructor that throws gives the caller no instance, so the caller is  *)
(* still where it was and may construct again.                             *)
(***************************************************************************)
Constructing == "constructor"

InitSeed ==
  /\ now = StartTime
  /\ rng = NewInstance
  /\ last = Call("none", "main", <<>>, StartTime, NewInstance,
                 Result(NewInstance, Empty, NoErr, <<>>, <<>>))
  /\ ops = 0
  /\ batch = [b \in Batchers |-> NoBatch]
  /\ mutex = [owner |-> Idle, queue |-> <<>>]
  /\ cpu = Constructing
  /\ shadow = NoShadow
  /\ poolReseeds = 0
  /\ reseeded = FALSE
  /\ timers = Absent
  /\ webRng = Absent
  /\ webCalls = Absent
  /\ statRng = Absent

\* A constructor that hands out the instance without seeding it.
ConstructSkipSeed(lengths) ==
  /\ cpu = Constructing
  /\ \E len \in lengths :
       /\ rng' = NewInstance
       /\ cpu' = Idle
       /\ last' = Call("new", "main", <<len>>, now, NewInstance,
                       Result(NewInstance, Empty, NoErr, <<>>, <<>>))
  /\ UNCHANGED <<now, ops, batch, mutex, shadow, poolReseeds, reseeded,
                 timers, webRng, webCalls, statRng>>

\* new FortunaRNG(seed) with a seed of the given length (lines 51-67).
Construct(lengths) ==
  /\ cpu = Constructing
  /\ \E len \in lengths :
       \E r \in {seedFromData(NewInstance, Fill(len, 0), now)} :
         /\ rng' = r.st
         /\ cpu' = IF r.err = NoErr THEN Idle ELSE Constructing
         /\ last' = Call("new", "main", <<len>>, now, NewInstance, r)
  /\ UNCHANGED <<now, ops, batch, mutex, shadow, poolReseeds, reseeded,
                 timers, webRng, webCalls, statRng>>

\* new FortunaRNG(): the seed is crypto.randomBytes(64) (lines 52-55).
ConstructUnseeded ==
  /\ cpu = Constructing
  /\ \E b \in OsBytes :
       \E r \in {seedFromData(NewInstance, Fill(SEED_LENGTH, b), now)} :
         /\ rng' = r.st
         /\ cpu' = IF r.err = NoErr THEN Idle ELSE Constructing
         /\ last' = Call("new", "main", <<>>, now, NewInstance, r)
  /\ UNCHANGED <<now, ops, batch, mutex, shadow, poolReseeds, reseeded,
                 timers, webRng, webCalls, statRng>>

NextSeed ==
  \/ Construct(SeedArgLengths)
  \/ ConstructUnseeded
  \/ Tick({0}, StartTime + Horizon)
  \/ CallSeedFromData(SeedArgLengths, MaxSeedOps)
  \/ CallRandomData({16}, ChunkRaws, MaxSeedOps)
  \/ CallGenerateInt32({<<Num(1), Num(6)>>}, BatchRaws, MaxSeedOps)
  \/ BatchCall("b1", {Num(2)}, {<<Num(1), Num(6)>>})
  \/ \E b \in Batchers : BatchAcquire(b)
  \/ \E b \in Batchers : BatchDraw(b)
  \/ \E b \in Batchers : BatchWake(b)
  \/ \E b \in Batchers : BatchReturn(b)

SpecSeed == InitSeed /\ [][NextSeed]_vars

(***************************************************************************)
(* Two instances side by side.  Both are constructed at StartTime from the *)
(* same seed, read the same clock and get the same calls with the same     *)
(* arguments; rng is the first and shadow.rng the second, shadow.last      *)
(* being the second's last call.  Each instance has its own producer       *)
(* timers (lines 69-71), whose handlers read crypto.randomInt,             *)
(* crypto.randomBytes and process.cpuUsage for themselves.                 *)
(***************************************************************************)
\* The decimal digits of a number as ASCII bytes: n.toString().
RECURSIVE Digits(_)
Digits(n) == IF n < 10 THEN <<48 + n>> ELSE Append(Digits(n \div 10), 48 + (n % 10))

\* When the timers fire, in ms after construction, and the handler each runs:
\* the constructor starts addRandomEventID1 at 457, ID2 at 503 and ID3 at 521
\* (lines 69-71); ID1 starts ID2 503 ms later (line 89), ID2 starts ID3 521 ms
\* later (line 105), ID3 starts ID1 457 ms later (line 122).
ProducerTimes ==
  << <<457, RESERVED_POOL_ID1>>, <<503, RESERVED_POOL_ID2>>, <<521, RESERVED_POOL_ID3>>,
     <<960, RESERVED_POOL_ID2>>, <<978, RESERVED_POOL_ID1>>, <<1024, RESERVED_POOL_ID3>> >>

\* crypto.randomInt(NUM_POOLS): pool 0 and another.
ProducerPools == {0, 1}
\* `${process.pid}${system}${user}` for a process 42 with 1 ms and 0 ms used.
CpuReadings == {4210}

\* What a handler may submit at the clock reading t.
ProducerData(id, t) ==
  IF id = RESERVED_POOL_ID1 THEN {Fill(32, b) : b \in OsBytes}
  ELSE IF id = RESERVED_POOL_ID2 THEN {Lit(Digits(t))}
  ELSE {Lit(Digits(n)) : n \in CpuReadings}

InitTwin ==
  /\ now = StartTime
  /\ rng = Constructed.st
  /\ last = Call("new", "main", <<SEED_LENGTH>>, StartTime, NewInstance, Constructed)
  /\ shadow = [rng |-> Constructed.st,
               last |-> Call("new", "main", <<SEED_LENGTH>>, StartTime, NewInstance, Constructed)]
  /\ ops = 0
  /\ batch = [b \in Batchers |-> NoBatch]
  /\ mutex = [owner |-> Idle, queue |-> <<>>]
  /\ cpu = Idle
  /\ poolReseeds = 0
  /\ reseeded = FALSE
  /\ timers = Absent
  /\ webRng = Absent
  /\ webCalls = Absent
  /\ statRng = Absent

\* The same call made on both instances at the same clock reading.
TwinCall(op, args, rA, rB) ==
  /\ rng' = rA.st
  /\ last' = Call(op, "main", args, now, rng, rA)
  /\ shadow' = [rng |-> rB.st, last |-> Call(op, "main", args, now, shadow.rng, rB)]

\* The same cipher bytes read as the same number in both instances.
SameReads(logA, logB) ==
  \A i \in 1..Len(logA), j \in 1..Len(logB) :
    (logA[i].ev = "getRaw32" /\ logB[j].ev = "getRaw32" /\ logA[i].out = logB[j].out)
      => logA[i].data = logB[j].data

TwinAddRandomEvent ==
  /\ cpu = Idle
  /\ ByteLen(rng.pools[0]) < POOL_SIZE /\ ByteLen(shadow.rng.pools[0]) < POOL_SIZE
  /\ TwinCall("addRandomEvent", <<Num(0), Num(0), 30>>,
              addRandomEvent(rng, Num(0), Num(0), Fill(30, 170)),
              addRandomEvent(shadow.rng, Num(0), Num(0), Fill(30, 170)))
  /\ UNCHANGED <<now, ops, batch, mutex, cpu, poolReseeds, reseeded,
                 timers, webRng, webCalls, statRng>>

TwinRandomData ==
  /\ cpu = Idle
  /\ ops < MaxTwinOps
  /\ TwinCall("randomData", <<16>>,
              randomData(rng, 16, now, <<>>), randomData(shadow.rng, 16, now, <<>>))
  /\ ops' = ops + 1
  /\ UNCHANGED <<now, batch, mutex, cpu, poolReseeds, reseeded,
                 timers, webRng, webCalls, statRng>>

TwinGenerateInt32 ==
  /\ cpu = Idle
  /\ ops < MaxTwinOps
  /\ \E rawsA \in BatchRaws, rawsB \in BatchRaws :
       \E rA \in {generateInt32(rng, Num(1), Num(6), now, rawsA)},
          rB \in {generateInt32(shadow.rng, Num(1), Num(6), now, rawsB)} :
         /\ Fed(rA) /\ Fed(rB)
         /\ SameReads(rA.log, rB.log)
         /\ TwinCall("generateInt32", <<Num(1), Num(6)>>, rA, rB)
  /\ ops' = ops + 1
  /\ UNCHANGED <<now, batch, mutex, cpu, poolReseeds, reseeded,
                 timers, webRng, webCalls, statRng>>

\* The next timer fires, on time, in both instances: each runs its handler,
\* addRandomEvent(id, crypto.randomInt(NUM_POOLS), data) (lines 83-125).
TwinProducers ==
  /\ cpu = Idle
  /\ \E k \in 1..Len(ProducerTimes) :
       LET t == StartTime + ProducerTimes[k][1]
           id == ProducerTimes[k][2]
       IN  /\ t > now /\ t <= StartTime + TwinHorizon
           /\ \A j \in 1..Len(ProducerTimes) :
                StartTime + ProducerTimes[j][1] > now => ProducerTimes[j][1] >= ProducerTimes[k][1]
           /\ now' = t
           /\ \E pA \in ProducerPools, pB \in ProducerPools,
                 dA \in ProducerData(id, t), dB \in ProducerData(id, t) :
                /\ rng' = addRandomEvent(rng, Num(id), Num(pA), dA).st
                /\ shadow' = [shadow EXCEPT
                                !.rng = addRandomEvent(shadow.rng, Num(id), Num(pB), dB).st]
  /\ UNCHANGED <<last, ops, batch, mutex, cpu, poolReseeds, reseeded,
                 timers, webRng, webCalls, statRng>>

NextTwin ==
  \/ TwinAddRandomEvent
  \/ TwinRandomData
  \/ TwinGenerateInt32
  \/ TwinProducers

SpecTwin == InitTwin /\ [][NextTwin]_vars

(***************************************************************************)
(* incrementCounter on its own, over counters at and near every carry: the *)
(* first byte, the twelve bytes after it and each of the last three bytes  *)
(* are 0, 254 or 255.                                                      *)
(***************************************************************************)
CounterInputs ==
  {[i \in 1..BLOCK_SIZE_BYTES |->
      IF i = 1 THEN first ELSE IF i <= 13 THEN mid ELSE low[i - 13]] :
     first \in {0, 254, 255}, mid \in {0, 255}, low \in [1..3 -> {0, 254, 255}]}

InitCounter ==
  /\ now = StartTime
  /\ rng \in {[Constructed.st EXCEPT !.generatorCounter = c] : c \in CounterInputs}
  /\ last = Call("new", "main", <<SEED_LENGTH>>, StartTime, NewInstance, Constructed)
  /\ ops = 0
  /\ batch = [b \in Batchers |-> NoBatch]
  /\ mutex = [owner |-> Idle, queue |-> <<>>]
  /\ cpu = Idle
  /\ shadow = NoShadow
  /\ poolReseeds = 0
  /\ reseeded = FALSE
  /\ timers = Absent
  /\ webRng = Absent
  /\ webCalls = Absent
  /\ statRng = Absent

CallIncrementCounter ==
  /\ ops < MaxIncrements
  /\ \E post \in {[rng EXCEPT !.generatorCounter = incrementCounter(@)]} :
       /\ rng' = post
       /\ last' = Call("incrementCounter", "main", <<>>, now, rng,
                       Result(post, Empty, NoErr, <<>>, <<>>))
  /\ ops' = ops + 1
  /\ UNCHANGED <<now, batch, mutex, cpu, shadow, poolReseeds, reseeded,
                 timers, webRng, webCalls, statRng>>

NextCounter == CallIncrementCounter

SpecCounter == InitCounter /\ [][NextCounter]_vars

(***************************************************************************)
(* Reseeds of both kinds one after another: events into pool 0, randomData *)
(* and seedFromData at the end of each reseed interval and the millisecond *)
(* before it, over two intervals.                                          *)
(***************************************************************************)
NextInterval ==
  \/ Tick({0, 1}, StartTime + IntervalHorizon)
  \/ CallAddRandomEvent({Num(0)}, {Num(0)}, EventLengths, MaxPoolBytes)
  \/ CallRandomData({0, 17}, {<<>>}, MaxIntervalOps)
  \/ CallSeedFromData(SeedLengths, MaxIntervalOps)

SpecInterval == Init /\ [][NextInterval]_vars

(***************************************************************************)
(* generateInt32 over ranges up to and beyond 2^32.  The loop of line 394  *)
(* is followed for as many reads as it is given: a call that has not       *)
(* returned after them is still in its loop, the caller (cpu) being busy   *)
(* in it, and goes on with further reads.                                  *)
(***************************************************************************)
\* Ranges of 6, 2^31, 2^32, 2^32 + 1 and 2^32 + 6 values.
WideRanges ==
  {<<Num(1), Num(6)>>, <<Num(0), Num(2147483647)>>, <<Num(0), Big(1, -1)>>,
   <<Num(0), Big(1, 0)>>, <<Num(-5), Big(1, 0)>>}

\* One or more reads, each 0 or 2^32 - 1.
WideRaws == ChunkRaws \ {<<>>}

\* The loop of generateInt32(min, max), entered or re-entered at st.
DrawLoopOf(st, min, max, clock, raws, log) ==
  IF SmallRange(min, max)
  THEN DrawLoop(st, max.floor - min.floor + 1, LimitOf(max.floor - min.floor + 1),
                min.floor, clock, raws, log)
  ELSE DrawLoopWide(st, RangeOfWide(min, max), LimitOfWide(RangeOfWide(min, max)),
                    min, clock, raws, log)

\* generateInt32 is called and makes the reads it is given.
StartGenerateInt32(ranges, rawSeqs, budget) ==
  /\ cpu = Idle
  /\ ops < budget
  /\ \E mm \in ranges, raws \in rawSeqs :
       \E r \in {generateInt32(rng, mm[1], mm[2], now, raws)} :
         /\ r.raws = <<>>
         /\ rng' = r.st
         /\ last' = Call("generateInt32", "main", mm, now, rng, r)
         /\ cpu' = IF r.err = Starved THEN "main" ELSE Idle
         /\ poolReseeds' = poolReseeds + PoolReseedsIn(r.log)
  /\ ops' = ops + 1
  /\ UNCHANGED <<now, batch, mutex, shadow, reseeded, timers, webRng, webCalls, statRng>>

\* A generateInt32 still in its loop makes further reads.
SpinGenerateInt32(rawSeqs, budget) ==
  /\ cpu = "main"
  /\ last.op = "generateInt32" /\ last.err = Starved
  /\ ops < budget
  /\ \E raws \in rawSeqs :
       \E r \in {DrawLoopOf(rng, last.args[1], last.args[2], now, raws, last.log)} :
         /\ r.raws = <<>>
         /\ rng' = r.st
         /\ last' = [last EXCEPT !.ret = r.ret, !.err = r.err, !.log = r.log]
         /\ cpu' = IF r.err = Starved THEN "main" ELSE Idle
         /\ poolReseeds' = poolReseeds + PoolReseedsIn(r.log)
  /\ ops' = ops + 1
  /\ UNCHANGED <<now, batch, mutex, shadow, reseeded, timers, webRng, webCalls, statRng>>

NextWide ==
  \/ StartGenerateInt32(WideRanges, WideRaws, MaxWideOps)
  \/ SpinGenerateInt32(WideRaws, MaxWideOps)

SpecWide == Init /\ [][NextWide]_vars

(***************************************************************************)
(* SpecProducers: one instance with its three internal timers, a caller    *)
(* submitting events and reading bytes, and a batch.  A timer is the       *)
(* handler it runs and the instant it is due; a handler runs when the      *)
(* event loop is idle, at its due time or later.                           *)
(***************************************************************************)
Timer(fn, due) == [fn |-> fn, due |-> due]

\* What the constructor starts (lines 69-71).
ConstructorTimers ==
  <<Timer("addRandomEventID1", StartTime + 457),
    Timer("addRandomEventID2", StartTime + 503),
    Timer("addRandomEventID3", StartTime + 521)>>

\* process.cpuUsage() and process.pid in the template of line 117: the
\* decimal digits of lead * 10^zeros.
Numeral(lead, zeros) == <<48 + lead>> \o [i \in 1..zeros |-> 48]

\* A process 42 that has used 1 ms of system and no user time, and process
\* 4194304 after 10^12 us (11.6 days) of system and as much of user time.
CpuUsages ==
  {[pid |-> Digits(42), system |-> Numeral(1, 3), user |-> Numeral(0, 0)],
   [pid |-> Digits(4194304), system |-> Numeral(1, 12), user |-> Numeral(1, 12)]}

\* The payloads of the three handlers at the clock reading t.
HandlerData(fn, t) ==
  IF fn = "addRandomEventID1" THEN {Fill(32, 7)}
  ELSE IF fn = "addRandomEventID2" THEN {Lit(Digits(t))}
  ELSE {Lit(u.pid \o u.system \o u.user) : u \in CpuUsages}

RemoveAt(seq, k) == [i \in 1..(Len(seq) - 1) |-> IF i < k THEN seq[i] ELSE seq[i + 1]]

InitProducers ==
  /\ now = StartTime
  /\ rng = Constructed.st
  /\ last = Call("new", "main", <<SEED_LENGTH>>, StartTime, NewInstance, Constructed)
  /\ ops = 0
  /\ batch = [b \in Batchers |-> NoBatch]
  /\ mutex = [owner |-> Idle, queue |-> <<>>]
  /\ cpu = Idle
  /\ shadow = NoShadow
  /\ poolReseeds = 0
  /\ reseeded = FALSE
  /\ timers = ConstructorTimers
  /\ webRng = Absent
  /\ webCalls = Absent
  /\ statRng = Absent

\* The instants at which a timer is due or a sleeping batch wakes.
TimerInstants ==
  {timers[k].due : k \in 1..Len(timers)}
  \cup {batch[b].wakeAt : b \in {c \in Batchers : batch[c].pc = "sleeping"}}

\* Time passes up to the next such instant; what is due then need not run
\* at once.
TickTimers(until) ==
  \E t \in TimerInstants :
    /\ t > now
    /\ t <= until
    /\ \A u \in TimerInstants : u > now => u >= t
    /\ now' = t
    /\ shadow' = IF shadow.owner # Idle /\ batch[shadow.owner].pc = "sleeping"
                 THEN [shadow EXCEPT !.slept = @ + (t - now)]
                 ELSE shadow
    /\ UNCHANGED <<rng, last, ops, batch, mutex, cpu, poolReseeds, reseeded,
                   timers, webRng, webCalls, statRng>>

\* A due timer runs its handler: addRandomEvent(id, crypto.randomInt(NUM_POOLS),
\* data), then setTimeout(successor, delay).  When addRandomEvent throws, the
\* handler ends there and starts no timer.
HandlerRuns(fn, id, successor, delay) ==
  /\ cpu = Idle
  /\ \E k \in 1..Len(timers) :
       /\ timers[k].fn = fn
       /\ timers[k].due <= now
       /\ \E poolId \in ProducerPools, data \in HandlerData(fn, now) :
            \E r \in {addRandomEvent(rng, Num(id), Num(poolId), data)} :
              /\ rng' = r.st
              /\ last' = Call(fn, "timer", <<Num(id), Num(poolId), ByteLen(data)>>,
                              now, rng, r)
              /\ timers' = IF r.err = NoErr
                           THEN Append(RemoveAt(timers, k), Timer(successor, now + delay))
                           ELSE RemoveAt(timers, k)
  /\ UNCHANGED <<now, ops, batch, mutex, cpu, shadow, poolReseeds, reseeded,
                 webRng, webCalls, statRng>>

addRandomEventID1 == HandlerRuns("addRandomEventID1", RESERVED_POOL_ID1, "addRandomEventID2", 503)

addRandomEventID2 == HandlerRuns("addRandomEventID2", RESERVED_POOL_ID2, "addRandomEventID3", 521)

addRandomEventID3 == HandlerRuns("addRandomEventID3", RESERVED_POOL_ID3, "addRandomEventID1", 457)

NextProducers ==
  \/ TickTimers(StartTime + ProducerHorizon)
  \/ addRandomEventID1
  \/ addRandomEventID2
  \/ addRandomEventID3
  \/ CallAddRandomEvent({Num(0)}, {Num(0)}, EventLengths, 1)
  \/ (ops < MaxProducerOps /\ BatchCall("b1", {Num(1)}, {<<Num(1), Num(6)>>}))
  \/ \E b \in Batchers : BatchAcquire(b)
  \/ \E b \in Batchers : BatchDraw(b)
  \/ \E b \in Batchers : BatchWake(b)
  \/ \E b \in Batchers : BatchReturn(b)

SpecProducers == InitProducers /\ [][NextProducers]_vars

(***************************************************************************)
(* SpecLive: two batch callers under fair scheduling.  The event loop runs *)
(* every callback that is ready and every timer that is due, so each step  *)
(* of a batch that stays possible is taken in the end.  A draw of a batch  *)
(* may refuse what it reads and read again.                                *)
(***************************************************************************)
\* A range of 6 values, and the 2^32 + 1 values of 0..2^32.
LiveRanges == {<<Num(1), Num(6)>>, <<Num(0), Big(1, 0)>>}

\* Reads of 0 and of 2^32 - 1.
LiveRaws == {<<x>> : x \in {<<0, 0, 0, 0>>, <<255, 255, 255, 255>>}}

\* The do-while of generateInt32 (lines 393-396) inside a batch: the read was
\* refused and the loop takes another turn, the batch's code still running.
BatchSpin(b) ==
  /\ cpu = b
  /\ batch[b].pc = "running"
  /\ batch[b].i < batch[b].count
  /\ ops < MaxBatchOps + MaxSpins
  /\ \E raws \in LiveRaws :
       \E r \in {generateInt32(rng, batch[b].min, batch[b].max, now, raws)} :
         /\ r.raws = <<>> /\ r.err = Starved
         /\ rng' = r.st
         /\ last' = Call("generateInt32", b, <<batch[b].min, batch[b].max>>, now, rng, r)
         /\ poolReseeds' = poolReseeds + PoolReseedsIn(r.log)
  /\ ops' = ops + 1
  /\ UNCHANGED <<now, batch, mutex, cpu, shadow, reseeded,
                 timers, webRng, webCalls, statRng>>

NextLive ==
  \/ Tick({0}, StartTime + Horizon)
  \/ \E b \in Batchers : BatchCall(b, {Num(1)}, LiveRanges)
  \/ \E b \in Batchers : BatchAcquire(b)
  \/ \E b \in Batchers : BatchDraw(b)
  \/ \E b \in Batchers : BatchSpin(b)
  \/ \E b \in Batchers : BatchWake(b)
  \/ \E b \in Batchers : BatchReturn(b)

\* What every step of a batch and of the clock changes.
sched == <<now, ops, batch, mutex, cpu>>

Fairness ==
  /\ WF_sched(Tick({0}, StartTime + Horizon))
  /\ \A b \in Batchers :
       /\ WF_sched(BatchAcquire(b))
       /\ WF_sched(BatchDraw(b))
       /\ WF_sched(BatchSpin(b))
       /\ WF_sched(BatchWake(b))
       /\ WF_sched(BatchReturn(b))

SpecLive == Init /\ [][NextLive]_vars /\ Fairness

(***************************************************************************)
(* SpecWeb: the FortunaRNG of js/FortunaRNG.js as js/test.js uses it: the  *)
(* instance is fed 32-byte arrays, and generateRandomBytes calls are in    *)
(* flight together.  An async method runs up to its next await in one      *)
(* step; what it awaits (importKey, encrypt, digest) resolves later, and   *)
(* the calls resume in any order.                                          *)
(***************************************************************************)
WebCallers == {"w1", "w2"}

\* crypto.getRandomValues(new Uint8Array(16)): zero, and 2^128 - 2.
WebCounters ==
  {[i \in 1..BLOCK_SIZE_BYTES |-> 0],
   [i \in 1..BLOCK_SIZE_BYTES |-> IF i = BLOCK_SIZE_BYTES THEN 254 ELSE 255]}

\* crypto.getRandomValues(new Uint8Array(32))
generateInitialKey == Fill(KEY_SIZE_BYTES, 7)

\* Bytes asked of generateRandomBytes: one short block, and two blocks.
WebLengths == {4, 32}

\* The instance after the constructor (lines 2-8), its counter drawn as c.
NewWebRng(c) ==
  [pools |-> [i \in 0..(NUM_POOLS - 1) |-> <<>>],
   counter |-> c,
   key |-> generateInitialKey,
   reseedCounter |-> 0,
   entropyPoolIndex |-> 0]

NoWebCall ==
  [pc |-> Idle, length |-> 0, i |-> 0, aesKey |-> Empty,
   counterBlock |-> [k \in 1..BLOCK_SIZE_BYTES |-> 0], result |-> <<>>,
   seedMaterial |-> Empty, err |-> NoErr]

RECURSIVE concatUint8Arrays(_)
concatUint8Arrays(arrays) ==
  IF arrays = <<>> THEN Empty ELSE Cat(Head(arrays), concatUint8Arrays(Tail(arrays)))

\* isReady (lines 101-113)
isReady(st) ==
  IF st.reseedCounter = 0
  THEN ByteLen(concatUint8Arrays(st.pools[0])) >= 64
  ELSE \E i \in 0..(NUM_POOLS - 1) : st.pools[i] # <<>>

\* for (k = 15; k >= 0; k--) { counter[k]++; if (counter[k] !== 0) break; ... }
\* on a Uint8Array, whose elements wrap at 256 (lines 74-85).
RECURSIVE WebIncrement(_, _)
WebIncrement(c, k) ==
  IF k = 0 THEN c
  ELSE IF c[k] = 255 THEN WebIncrement([c EXCEPT ![k] = 0], k - 1)
  ELSE [c EXCEPT ![k] = c[k] + 1]

\* The loop reached k === 0 with counter[0] wrapped to 0.
CounterOverflow(c) == \A k \in 1..BLOCK_SIZE_BYTES : c[k] = 255

InitWeb ==
  /\ now = StartTime
  /\ rng = Constructed.st
  /\ last = Call("new", "main", <<SEED_LENGTH>>, StartTime, NewInstance, Constructed)
  /\ ops = 0
  /\ batch = [b \in Batchers |-> NoBatch]
  /\ mutex = [owner |-> Idle, queue |-> <<>>]
  /\ cpu = Idle
  /\ shadow = NoShadow
  /\ poolReseeds = 0
  /\ reseeded = FALSE
  /\ timers = Absent
  /\ webRng \in {NewWebRng(c) : c \in WebCounters}
  /\ webCalls = [c \in WebCallers |-> NoWebCall]
  /\ statRng = Absent

\* addEntropy(new Uint8Array(32)) (lines 91-95; js/test.js lines 11-13)
WebAddEntropy ==
  /\ ops < MaxWebEntropy
  /\ \A c \in WebCallers : webCalls[c].pc = Idle
  /\ webRng' = [webRng EXCEPT
                  !.pools[webRng.entropyPoolIndex] = Append(@, Fill(32, 0)),
                  !.entropyPoolIndex = (@ + 1) % NUM_POOLS]
  /\ ops' = ops + 1
  /\ UNCHANGED <<rng, now, last, batch, mutex, cpu, shadow, poolReseeds, reseeded,
                 timers, webCalls, statRng>>

\* generateRandomBytes(length) up to `await crypto.subtle.importKey(...)`
\* (lines 47-59): importKey is given the key of this moment.
WebCall(c) ==
  /\ webCalls[c].pc = Idle
  /\ \E length \in WebLengths :
       webCalls' = [webCalls EXCEPT ![c] =
         IF ~isReady(webRng)
         THEN [NoWebCall EXCEPT !.pc = "thrown", !.length = length,
                                !.err = "Insufficient entropy."]
         ELSE [NoWebCall EXCEPT !.pc = "importKey", !.length = length,
                                !.aesKey = webRng.key]]
  /\ UNCHANGED <<rng, now, last, ops, batch, mutex, cpu, shadow, poolReseeds, reseeded,
                 timers, webRng, statRng>>

\* importKey has resolved: the loop starts, takes a copy of the counter and
\* awaits the encryption of that block (lines 61-67).
WebImported(c) ==
  /\ webCalls[c].pc = "importKey"
  /\ webCalls' = [webCalls EXCEPT ![c] =
       IF 0 < webCalls[c].length
       THEN [@ EXCEPT !.pc = "encrypt", !.counterBlock = webRng.counter]
       ELSE [@ EXCEPT !.pc = "done"]]
  /\ UNCHANGED <<rng, now, last, ops, batch, mutex, cpu, shadow, poolReseeds, reseeded,
                 timers, webRng, statRng>>

\* A block of output: AES under aesKey of the counter block.
WebBlock(key, ctr, bytes) == [key |-> key, ctr |-> ctr, bytes |-> bytes]

\* encrypt has resolved (lines 63-87): the block goes into the result and
\* the counter of the instance is incremented.  Without overflow the loop
\* goes on to its next turn, where it copies the counter again, or the
\* method returns.  On overflow the generator is reset and reseed() runs up
\* to its await of the digest (lines 24-37): with reseedCounter = 0 only
\* pool 0 passes the test (reseedCounter - 1) % 2^i === 0.
WebEncrypted(c) ==
  /\ webCalls[c].pc = "encrypt"
  /\ LET w == webCalls[c]
         n == IF w.length - w.i < 16 THEN w.length - w.i ELSE 16
         result == Append(w.result, WebBlock(w.aesKey, w.counterBlock, n))
     IN  IF CounterOverflow(webRng.counter)
         THEN \E fresh \in WebCounters :
                LET seedMaterial == concatUint8Arrays(webRng.pools[0])
                IN  /\ webRng' = [webRng EXCEPT !.counter = fresh,
                                                !.key = generateInitialKey,
                                                !.reseedCounter = 0,
                                                !.pools[0] = <<>>]
                    /\ webCalls' = [webCalls EXCEPT ![c] =
                         [w EXCEPT !.pc = "reseed", !.result = result,
                                   !.seedMaterial = seedMaterial]]
         ELSE /\ webRng' = [webRng EXCEPT !.counter = WebIncrement(@, BLOCK_SIZE_BYTES)]
              /\ webCalls' = [webCalls EXCEPT ![c] =
                   IF w.i + 16 < w.length
                   THEN [w EXCEPT !.result = result, !.i = w.i + 16,
                                  !.counterBlock = WebIncrement(webRng.counter, BLOCK_SIZE_BYTES)]
                   ELSE [w EXCEPT !.result = result, !.i = w.i + 16, !.pc = "done"]]
  /\ UNCHANGED <<rng, now, last, ops, batch, mutex, cpu, shadow, poolReseeds, reseeded,
                 timers, statRng>>

\* reseed() has resolved: with seed material the key is the digest of
\* (key || seedMaterial), the key being the one reseed() passed to hash();
\* then generateRandomBytes throws (lines 33-36, 83-84).
WebReseeded(c) ==
  /\ webCalls[c].pc = "reseed"
  /\ webRng' = IF webCalls[c].seedMaterial # Empty
               THEN [webRng EXCEPT
                       !.key = hash(Cat(generateInitialKey, webCalls[c].seedMaterial)),
                       !.reseedCounter = @ + 1]
               ELSE webRng
  /\ webCalls' = [webCalls EXCEPT ![c] =
       [@ EXCEPT !.pc = "thrown", !.err = "Counter overflow. RNG has been reset."]]
  /\ UNCHANGED <<rng, now, last, ops, batch, mutex, cpu, shadow, poolReseeds, reseeded,
                 timers, statRng>>

NextWeb ==
  \/ WebAddEntropy
  \/ \E c \in WebCallers : WebCall(c)
  \/ \E c \in WebCallers : WebImported(c)
  \/ \E c \in WebCallers : WebEncrypted(c)
  \/ \E c \in WebCallers : WebReseeded(c)

SpecWeb == InitWeb /\ [][NextWeb]_vars

(***************************************************************************)
(* SpecStat: the FortunaRNG of js/statisticalTests.js, whose addEntropy    *)
(* caps the size of a pool.  A key of null is the empty byte string.       *)
(***************************************************************************)
MIN_POOL_SIZE == 64
STAT_RESEED_INTERVAL_MS == 1000

\* The byte lengths of what callers submit to pool 0; to the other pools
\* they submit 64 bytes, as the constructor does.
StatLengths == {1, 192, 300}

\* The longest submission: the bootstrap of shouldReseed joins the 13 digits
\* of Date.now() and 64 random bytes, generate submits 4 bytes.
MaxSubmission == CHOOSE n \in StatLengths : \A m \in StatLengths : m <= n

addEntropyNoCap(st, data) ==
  [st EXCEPT !.pools[st.poolIndex] = Cat(@, data),
             !.poolIndex = (@ + 1) % NUM_POOLS]

\* addEntropy(data) for a Buffer (lines 171-193)
addEntropy(st, data) ==
  [st EXCEPT
     !.pools[st.poolIndex] =
        IF ByteLen(@) <= MIN_POOL_SIZE * 4 THEN Cat(@, data) ELSE hash(Cat(@, data)),
     !.poolIndex = (@ + 1) % NUM_POOLS]

RECURSIVE WarmUp(_, _)
\* for (i = 0; i < NUM_POOLS; i++) addEntropy(crypto.randomBytes(MIN_POOL_SIZE))
WarmUp(st, i) == IF i = NUM_POOLS THEN st ELSE WarmUp(addEntropy(st, Fill(MIN_POOL_SIZE, 5)), i + 1)

\* The instance after the constructor (lines 113-138) run at the clock t.
NewStatRng(t) ==
  WarmUp([pools |-> [i \in PoolIndex |-> Empty],
          poolIndex |-> 0,
          key |-> Empty,
          ctr |-> [i \in 1..BLOCK_SIZE_BYTES |-> 0],
          reseedCounter |-> 0,
          lastReseedTime |-> t], 0)

\* shouldReseed (lines 201-222) at the clock t: the instance it leaves and
\* what it returns.
shouldReseed(st, t) ==
  IF st.key = Empty
  THEN [st |-> [addEntropy(st, Cat(Lit(Digits(t)), Fill(MIN_POOL_SIZE, 6)))
                  EXCEPT !.key = Fill(KEY_SIZE_BYTES, 8)],
        ret |-> TRUE]
  ELSE [st |-> st,
        ret |-> ByteLen(st.pools[0]) >= MIN_POOL_SIZE
                /\ t - st.lastReseedTime > STAT_RESEED_INTERVAL_MS]

RECURSIVE StatCollect(_, _, _)
\* The loop of reseed (lines 235-243): st.reseedCounter is already incremented
\* and stays below 2^31, so that 2^31 divides it only when it is 0.
StatCollect(st, i, seedMaterial) ==
  IF i = NUM_POOLS THEN [st |-> st, seed |-> seedMaterial]
  ELSE IF (IF i <= 30 THEN st.reseedCounter % (2 ^ i) = 0 ELSE st.reseedCounter = 0)
       THEN StatCollect([st EXCEPT !.pools[i] = Empty], i + 1,
                        seedMaterial \o hash(st.pools[i]))
       ELSE StatCollect(st, i + 1, seedMaterial)

\* reseed (lines 230-254) at the clock t
statReseed(st, t) ==
  LET c == StatCollect([st EXCEPT !.reseedCounter = @ + 1], 0, Empty)
  IN  [c.st EXCEPT !.key = hash(Cat(st.key, c.seed \o hash(Lit(Digits(t))))),
                   !.lastReseedTime = t]

\* generate(numBytes) after its reseed check (lines 272-297): the output is
\* the cipher stream at ctr, the new key the two blocks at ctr + 1, and the
\* next 4 bytes of that stream go into the pools.
statGenerate(st, numBytes) ==
  LET c1 == incrementCounter(st.ctr)
  IN  [addEntropy(st, Aes(st.key, CounterAfter(c1, 2), 4))
         EXCEPT !.key = Aes(st.key, c1, 2 * BLOCK_SIZE_BYTES),
                !.ctr = incrementCounter(c1)]

InitStat ==
  /\ now = StartTime
  /\ rng = Constructed.st
  /\ last = Call("new", "main", <<SEED_LENGTH>>, StartTime, NewInstance, Constructed)
  /\ ops = 0
  /\ batch = [b \in Batchers |-> NoBatch]
  /\ mutex = [owner |-> Idle, queue |-> <<>>]
  /\ cpu = Idle
  /\ shadow = NoShadow
  /\ poolReseeds = 0
  /\ reseeded = FALSE
  /\ timers = Absent
  /\ webRng = Absent
  /\ webCalls = Absent
  /\ statRng = NewStatRng(StartTime)

\* A caller submits a Buffer.
StatAddEntropy ==
  /\ ops < MaxStatOps
  /\ \E n \in (IF statRng.poolIndex = 0 THEN StatLengths ELSE {MIN_POOL_SIZE}) :
       statRng' = addEntropy(statRng, Fill(n, 170))
  /\ ops' = ops + 1
  /\ UNCHANGED <<rng, now, last, batch, mutex, cpu, shadow, poolReseeds, reseeded,
                 timers, webRng, webCalls>>

\* The first generate(16) of the instance: the reseed check, the reseed when
\* it says so, the output.
StatGenerate ==
  /\ statRng.key = Empty
  /\ LET s == shouldReseed(statRng, now)
     IN  statRng' = statGenerate(IF s.ret THEN statReseed(s.st, now) ELSE s.st, 16)
  /\ UNCHANGED <<rng, now, last, ops, batch, mutex, cpu, shadow, poolReseeds, reseeded,
                 timers, webRng, webCalls>>

\* More than the reseed interval passes.
StatTick ==
  /\ now < StartTime + STAT_RESEED_INTERVAL_MS
  /\ now' = now + STAT_RESEED_INTERVAL_MS + 1
  /\ UNCHANGED <<rng, last, ops, batch, mutex, cpu, shadow, poolReseeds, reseeded,
                 timers, webRng, webCalls, statRng>>

NextStat ==
  \/ StatAddEntropy
  \/ StatGenerate
  \/ StatTick

SpecStat == InitStat /\ [][NextStat]_vars

(***************************************************************************)
(* The claims.                                                             *)
(***************************************************************************)
\* The entries of one kind in the trace of the last call.
Entries(ev) == {j \in 1..Len(last.log) : last.log[j].ev = ev}

\* A batch between its first and its last draw.
MidBatch(b) ==
  /\ batch[b].pc \in {"running", "sleeping"}
  /\ 1 <= batch[b].i /\ batch[b].i < batch[b].count

\* C1: while a generateInt32Batch call with min < max is between its first and
\* its last draw (its suspensions included), a step that changes the
\* generator key or the counter is a step of that batch: no other caller's
\* operation changes them.
C1_OnlyTheBatchMovesTheGenerator ==
  [][\A b \in Batchers :
       (/\ MidBatch(b)
        /\ \/ rng'.generatorKey # rng.generatorKey
           \/ rng'.generatorCounter # rng.generatorCounter)
       => last'.caller = b]_vars

\* C2: two generateInt32Batch calls with min < max never interleave their
\* draws: once a batch has drawn, no other batch has drawn or holds the
\* mutex until the first has returned.
C2_BatchesDoNotInterleave ==
  \A a \in Batchers, b \in Batchers :
    (a # b /\ batch[a].i >= 1)
      => batch[b].i = 0 /\ batch[b].pc \in {Idle, "waiting"}

\* b1 is suspended in its sleep after its first draw, holding the mutex, and
\* b2 has asked for the mutex and waits.
C2_Witness ==
  /\ batch["b1"].pc = "sleeping" /\ batch["b1"].i = 1
  /\ mutex.owner = "b1"
  /\ batch["b2"].pc = "waiting"

\* C3: the values generateInt32Batch returns are those of the same batch run
\* from the same generator state without suspending: with no other caller
\* drawing meanwhile, events added and time elapsed during the suspensions
\* change no value.
C3_SuspensionChangesNoValue ==
  (shadow.done /\ ~shadow.foreign) => shadow.returned = shadow.results

\* The reseed checks of the last call that reseeded.
Reseeding == {j \in Entries("reseedCheck") :
                last.log[j].post.reseedCount # last.log[j].pre.reseedCount}

PowerOfTwoDivides(i, k) == i <= 30 /\ k % (2 ^ i) = 0

RECURSIVE DigestsFrom(_, _, _)
\* The digests of the pools of S with index i or more, in ascending order of
\* index.
DigestsFrom(pools, S, i) ==
  IF i >= NUM_POOLS THEN Empty
  ELSE IF i \in S
  THEN <<[tag |-> "sha", v |-> pools[i]]>> \o DigestsFrom(pools, S, i + 1)
  ELSE DigestsFrom(pools, S, i + 1)

\* The pools a reseed check emptied that held something.
Consumed(e) == {i \in PoolIndex : e.pre.pools[i] # Empty /\ e.post.pools[i] = Empty}

\* A reseed check that hashed and cleared exactly the pools of S: the seed
\* is their digests in ascending order, the other pools are as they were.
Takes(e, S) ==
  /\ e.data = DigestsFrom(e.pre.pools, S, 0)
  /\ \A i \in PoolIndex :
       e.post.pools[i] = IF i \in S THEN Empty ELSE e.pre.pools[i]

\* A reseed check that took exactly the pools whose power of two divides k.
TakesPoolsOf(e, k) == Takes(e, {i \in PoolIndex : PowerOfTwoDivides(i, k)})

\* C5: with seedFromData not called again after the constructor, the k-th
\* pool-triggered reseed hashes and clears exactly the pools i with
\* k mod 2^i = 0 ({0} for k=1, {0,1} for k=2, {0} for k=3, {0,1,2} for k=4,
\* {0,1,2,3} for k=8, {0,1,2,3,4} for k=16), seeds with their digests in
\* ascending order of index, and leaves every other pool as it was.
C5_KthReseedTakesPoolsOfK ==
  (last.op = "randomData" /\ ~reseeded) =>
    \A j \in Reseeding :
      LET e == last.log[j]
          k == poolReseeds
      IN  /\ TakesPoolsOf(e, k)
          /\ k = 1 => Takes(e, {0})
          /\ k = 2 => Takes(e, {0, 1})
          /\ k = 3 => Takes(e, {0})
          /\ k = 4 => Takes(e, {0, 1, 2})
          /\ k = 8 => Takes(e, {0, 1, 2, 3})
          /\ k = 16 => Takes(e, {0, 1, 2, 3, 4})

\* The 16th pool-triggered reseed has just been made, with the pools 0..5
\* all holding events before it: it took the pools 0..4 and left pool 5.
C5_Witness ==
  /\ last.op = "randomData" /\ ~reseeded
  /\ poolReseeds = 16
  /\ \E j \in Reseeding :
       /\ \A i \in 0..5 : last.log[j].pre.pools[i] # Empty
       /\ Consumed(last.log[j]) = {0, 1, 2, 3, 4}

\* C6 as stated: on a pool-triggered reseed the reseed counter is incremented
\* first, and the pools taken are those i for which the incremented value is
\* divisible by 2^i.
C6_EligibilityOnIncrementedCount ==
  last.op = "randomData" =>
    \A j \in Reseeding :
      TakesPoolsOf(last.log[j], last.log[j].pre.reseedCount + 1)

\* C6 as the code has it: on a pool-triggered reseed the pools taken are
\* those i for which the reseed counter's value before the reseed is
\* divisible by 2^i; the counter is incremented afterwards, by one, in
\* reseed().
C6_EligibilityOnCountBeforeIncrement ==
  last.op = "randomData" =>
    \A j \in Reseeding :
      LET e == last.log[j]
      IN  /\ TakesPoolsOf(e, e.pre.reseedCount)
          /\ e.post.reseedCount = e.pre.reseedCount + 1

\* A pool-triggered reseed made with the counter at 2 and events in pools 0
\* and 1: it took both, and the counter went to 3.
C6_Witness ==
  /\ last.op = "randomData"
  /\ \E j \in Reseeding :
       /\ last.log[j].pre.reseedCount = 2
       /\ Consumed(last.log[j]) = {0, 1}
       /\ last.log[j].post.reseedCount = 3

\* n / d rounded up, for n >= 0 and d > 0.
CeilDiv(n, d) == (n \div d) + (IF n % d = 0 THEN 0 ELSE 1)

\* C7 as stated: within one randomData request the reseed check runs exactly
\* once, and before any block of the request is generated, also when the
\* request is larger than 1 MiB.
C7_OneCheckPerRequest ==
  last.op = "randomData" =>
    /\ Cardinality(Entries("reseedCheck")) = 1
    /\ \A j \in Entries("reseedCheck"), g \in Entries("generateBlocks") : j < g

\* C7 as the code has it: a randomData request runs the reseed check first,
\* before any block is generated.  A request of at most 1 MiB runs it exactly
\* once.  A request larger than 1 MiB runs it once more for every 4-byte
\* read of the draw that follows each chunk (the last chunk too), after
\* blocks of the request have been generated, and such a check can reseed.
C7_CheckFirstAndAgainPerChunk ==
  (last.op = "randomData" /\ last.err = NoErr) =>
    LET n == last.args[1]
        checks == Cardinality(Entries("reseedCheck"))
        reads  == Cardinality(Entries("getRaw32"))
    IN  /\ \E j \in Entries("reseedCheck") :
             /\ last.log[j].pre = last.pre /\ last.log[j].n = last.clock
             /\ \A g \in Entries("generateBlocks") : j < g
        /\ n <= MAX_GENERATE_BYTES => checks = 1
        /\ n > MAX_GENERATE_BYTES =>
             /\ checks = 1 + reads
             /\ reads >= CeilDiv(n, MAX_GENERATE_BYTES)

\* A request of 1 MiB + 1 bytes reseeded in a check that ran after blocks of
\* the request had been generated.
C7_Witness ==
  /\ last.op = "randomData" /\ last.err = NoErr
  /\ last.args[1] > MAX_GENERATE_BYTES
  /\ \E j \in Reseeding, g \in Entries("generateBlocks") : g < j

\* The counter as a number: its three low bytes (the others stay zero in
\* the runs of this model).
CounterValue(c) == c[14] * 65536 + c[15] * 256 + c[16]

\* C8: every reseed, from seedFromData or from the pools, sets the key to
\* hash(old key || seed material), advances the counter by exactly one and
\* leaves seeded true; the counter is never set to zero or to an earlier
\* value.
C8_ReseedRekeysAndAdvances ==
  /\ \A j \in Entries("reseed") :
       LET e == last.log[j]
       IN  /\ e.post.generatorKey =
                <<[tag |-> "sha", v |-> Cat(e.pre.generatorKey, e.data)]>>
           /\ CounterValue(e.post.generatorCounter)
                = CounterValue(e.pre.generatorCounter) + 1
           /\ \A i \in 1..13 : e.post.generatorCounter[i] = e.pre.generatorCounter[i]
           /\ e.post.seeded
           /\ CounterValue(rng.generatorCounter) >= CounterValue(e.post.generatorCounter)
  /\ \A j \in Entries("seedFromData") \cup Reseeding :
       LET e == last.log[j]
       IN  /\ j - 1 \in Entries("reseed")
           /\ e.post.generatorKey = last.log[j - 1].post.generatorKey
           /\ e.post.generatorCounter = last.log[j - 1].post.generatorCounter
           /\ e.post.seeded

\* A pool-triggered reseed made after seedFromData was called again and the
\* counter had advanced.
C8_Witness ==
  /\ last.op = "randomData" /\ reseeded
  /\ \E j \in Reseeding :
       /\ j - 1 \in Entries("reseed")
       /\ CounterValue(last.log[j - 1].pre.generatorCounter) >= 2
       /\ last.log[j - 1].data # Empty

RECURSIVE BlockStream(_, _, _, _)
\* E_K(c + j) || E_K(c + j + 1) || ... || E_K(c + m - 1)
BlockStream(K, c, j, m) ==
  IF j >= m THEN Empty
  ELSE Cat(Aes(K, CounterAfter(c, j), BLOCK_SIZE_BYTES), BlockStream(K, c, j + 1, m))

\* C9: for 0 < n <= 2^20, pseudoRandomData(n) called with key K and counter c
\* returns the first n bytes of E_K(c) || E_K(c+1) || ... ||
\* E_K(c + ceil(n/16) - 1): every block under the key in force at the start,
\* at the next counter value, none skipped or repeated.
C9_OutputIsTheBlockStream ==
  \A j \in Entries("pseudoRandomData") :
    LET e == last.log[j]
        m == CeilDiv(e.n, BLOCK_SIZE_BYTES)
    IN  (0 < e.n /\ e.n <= MAX_GENERATE_BYTES) =>
          /\ e.out = Take(BlockStream(e.pre.generatorKey, e.pre.generatorCounter, 0, m),
                          e.n)
          /\ ByteLen(e.out) = e.n

\* A 17-byte request served from two blocks, the second cut to one byte, by a
\* generator whose counter had already advanced.
C9_Witness ==
  \E j \in Entries("pseudoRandomData") :
    /\ last.log[j].n = 17
    /\ CounterValue(last.log[j].pre.generatorCounter) >= 4
    /\ last.log[j].out[1].v.ctr = last.log[j].pre.generatorCounter
    /\ ByteLen(last.log[j].out) = 17

\* C10: every pseudoRandomData(n) with n > 0 ends by replacing the key with
\* E_K(c+m) || E_K(c+m+1), m = ceil(n/16): the two key blocks are generated
\* after the returned blocks, at counter values past theirs; the counter ends
\* at c + m + 2; and the key K is not the key afterwards.
C10_RekeyAfterEveryRequest ==
  \A j \in Entries("pseudoRandomData") :
    LET e == last.log[j]
        K == e.pre.generatorKey
        c == e.pre.generatorCounter
        m == CeilDiv(e.n, BLOCK_SIZE_BYTES)
    IN  e.n > 0 =>
          /\ e.post.generatorKey =
               Cat(Aes(K, CounterAfter(c, m), BLOCK_SIZE_BYTES),
                   Aes(K, CounterAfter(c, m + 1), BLOCK_SIZE_BYTES))
          /\ e.post.generatorCounter = CounterAfter(c, m + 2)
          /\ CounterValue(e.post.generatorCounter) = CounterValue(c) + m + 2
          /\ j > 2
          /\ last.log[j - 2].ev = "generateBlocks" /\ last.log[j - 2].out # Empty
          /\ Take(last.log[j - 2].out, e.n) = e.out
          /\ last.log[j - 1].ev = "generateBlocks"
          /\ last.log[j - 1].pre = last.log[j - 2].post
          /\ last.log[j - 1].out = e.post.generatorKey
          /\ CounterValue(last.log[j - 1].pre.generatorCounter)
               = CounterValue(last.log[j - 2].pre.generatorCounter) + m
          /\ e.post.generatorKey # K
          /\ rng.generatorKey # K
          /\ \A g \in Entries("generateBlocks") : g > j => last.log[g].pre.generatorKey # K

\* A 17-byte request (two blocks) has been served: the key is now the two
\* blocks that follow them and the counter has advanced by four.
C10_Witness ==
  /\ last.op = "randomData" /\ last.args = <<17>> /\ last.err = NoErr
  /\ \E j \in Entries("pseudoRandomData") :
       /\ rng.generatorKey = last.log[j].post.generatorKey
       /\ CounterValue(rng.generatorCounter)
            = CounterValue(last.log[j].pre.generatorCounter) + 4

\* C11: the counter, read as a big-endian integer, never decreases, and no two
\* block encryptions use the same (key, counter) pair: every generateBlocks(k)
\* encrypts the k counter values from the one it starts at, each call starts
\* at or after the value the one before it ended at, and every step of the
\* instance leaves the counter where it was or further on.
C11_CounterNeverDecreasesNoPairReused ==
  /\ [](/\ \A i \in 1..13 : rng.generatorCounter[i] = 0
        /\ \A j \in 1..Len(last.log) :
             CounterValue(last.log[j].pre.generatorCounter)
               <= CounterValue(last.log[j].post.generatorCounter)
        /\ \A g \in Entries("generateBlocks") :
             LET e == last.log[g]
             IN  /\ CounterValue(last.pre.generatorCounter)
                      <= CounterValue(e.pre.generatorCounter)
                 /\ e.out = Aes(e.pre.generatorKey, e.pre.generatorCounter,
                                e.n * BLOCK_SIZE_BYTES)
                 /\ CounterValue(e.post.generatorCounter)
                      = CounterValue(e.pre.generatorCounter) + e.n
                 /\ CounterValue(e.post.generatorCounter)
                      <= CounterValue(rng.generatorCounter)
        /\ \A g, h \in Entries("generateBlocks") :
             g < h => CounterValue(last.log[g].post.generatorCounter)
                        <= CounterValue(last.log[h].pre.generatorCounter))
  /\ [][CounterValue(rng.generatorCounter) <= CounterValue(rng'.generatorCounter)]_vars

\* A request above 1 MiB after earlier calls: its chunk of 65536 blocks
\* carried into the counter's third byte from the end, and it reseeded
\* between two of its runs of blocks.
C11_Witness ==
  /\ last.op = "randomData" /\ last.err = NoErr
  /\ CounterValue(last.pre.generatorCounter) >= 4
  /\ rng.generatorCounter[14] >= 1
  /\ \E g \in Entries("generateBlocks"), j \in Reseeding, h \in Entries("generateBlocks") :
       g < j /\ j < h

\* The chunks of the last call, in the order the loop pushed them.
Chunks == Entries("chunk")

\* C12: randomData(n) returns exactly n bytes for every integer n >= 0.  For
\* n <= 2^20 they come from one pseudoRandomData(n); for n > 2^20 they are the
\* concatenation, in order, of ceil(n / 2^20) chunks of at most 2^20 bytes
\* each.  A negative n fails with an error and returns nothing.
C12_ReturnsExactlyNBytes ==
  last.op = "randomData" =>
    LET n == last.args[1]
    IN  /\ n < 0 => (/\ last.err = "Invalid number of bytes requested"
                     /\ last.ret = Empty
                     /\ Entries("generateBlocks") = {})
        /\ n >= 0 => (last.err = NoErr /\ ByteLen(last.ret) = n)
        /\ n = 0 => Entries("generateBlocks") = {}
        /\ (0 < n /\ n <= MAX_GENERATE_BYTES) =>
             /\ Chunks = {}
             /\ Cardinality(Entries("pseudoRandomData")) = 1
             /\ \A j \in Entries("pseudoRandomData") :
                  last.log[j].n = n /\ last.log[j].out = last.ret
        /\ n > MAX_GENERATE_BYTES =>
             /\ Cardinality(Chunks) = CeilDiv(n, MAX_GENERATE_BYTES)
             /\ \A j \in Chunks :
                  LET e == last.log[j]
                  IN  /\ 0 < ByteLen(e.out) /\ ByteLen(e.out) <= MAX_GENERATE_BYTES
                      /\ ByteLen(e.data) + ByteLen(e.out) + e.n = n
                      /\ (\A h \in Chunks : h <= j) => last.ret = e.data \o e.out
                      /\ (\A h \in Chunks : h >= j) => e.data = Empty
                      /\ \A h \in Chunks :
                           (h > j /\ \A m \in Chunks : ~(j < m /\ m < h))
                             => last.log[h].data = e.data \o e.out

\* A request of 2^20 + 1 bytes was served as a chunk of 2^20 bytes followed
\* by a chunk of one byte.
C12_Witness ==
  /\ last.op = "randomData" /\ last.err = NoErr
  /\ last.args[1] = MAX_GENERATE_BYTES + 1
  /\ ByteLen(last.ret) = MAX_GENERATE_BYTES + 1
  /\ \E j, h \in Chunks :
       /\ j < h
       /\ ByteLen(last.log[j].out) = MAX_GENERATE_BYTES
       /\ ByteLen(last.log[h].out) = 1

\* The self-feed events of the last call: randomData calls addRandomEvent
\* nowhere else.
SelfFeeds == Entries("addRandomEvent")

\* C13 as stated: a request of c chunks submits exactly c - 1 self-feed
\* events, each between two consecutive chunks, and none after the final
\* chunk.
C13_SelfFeedOnlyBetweenChunks ==
  (last.op = "randomData" /\ last.err = NoErr /\ last.args[1] > MAX_GENERATE_BYTES) =>
    /\ Cardinality(SelfFeeds) = Cardinality(Chunks) - 1
    /\ \A f \in SelfFeeds : \E j, h \in Chunks : j < f /\ f < h

\* C13 as the code has it: randomData(n) with n > 2^20 submits one self-feed
\* event after every chunk, the final chunk included: c chunks, c events,
\* the last of them after the last chunk.  Each event is 32 bytes generated
\* after its chunk, encoded with source 255 and appended to the pool that a
\* generateInt32(0, 31) draw picked.  A request of n <= 2^20 submits none.
C13_SelfFeedAfterEveryChunk ==
  (last.op = "randomData" /\ last.err = NoErr) =>
    /\ last.args[1] <= MAX_GENERATE_BYTES => SelfFeeds = {}
    /\ last.args[1] > MAX_GENERATE_BYTES =>
         /\ Cardinality(SelfFeeds) = Cardinality(Chunks)
         /\ \A j \in Chunks :
              \E f \in SelfFeeds :
                /\ j < f
                /\ \A h \in Chunks : h > j => f < h
         /\ \A f \in SelfFeeds :
              LET e == last.log[f]
              IN  /\ e.n \in 0..31
                  /\ ByteLen(e.data) = 32
                  /\ last.log[f - 1].ev = "pseudoRandomData"
                  /\ last.log[f - 1].n = 32
                  /\ last.log[f - 1].out = e.data
                  /\ e.post.pools[e.n] =
                       Cat(e.pre.pools[e.n],
                           Cat(Lit(<<RESERVED_POOL_ID4, 32>>), e.data))
                  /\ \A q \in PoolIndex \ {e.n} : e.post.pools[q] = e.pre.pools[q]

\* A request of two chunks submitted two events, the second after the last
\* chunk, and the two went to different pools (0 and 31).
C13_Witness ==
  /\ last.op = "randomData" /\ last.err = NoErr
  /\ Cardinality(Chunks) = 2 /\ Cardinality(SelfFeeds) = 2
  /\ \E f, g \in SelfFeeds :
       /\ f < g
       /\ \A h \in Chunks : h < g
       /\ last.log[f].n = 0 /\ last.log[g].n = 31
       /\ ByteLen(rng.pools[31]) >= 34

\* What addRandomEvent accepts: an integer source in 0..255, an integer pool
\* in 0..31 and a payload of 1 to 32 bytes.
ValidEvent(sourceId, poolId, len) ==
  /\ sourceId.kind = "int" /\ sourceId.floor \in 0..255
  /\ poolId.kind = "int" /\ poolId.floor \in 0..(NUM_POOLS - 1)
  /\ len \in 1..32

\* C14: addRandomEvent(sourceId, poolId, payload) fails with an error when
\* sourceId is outside 0..255 or not an integer, when poolId is outside 0..31
\* or not an integer, or when the payload is shorter than 1 or longer than 32
\* bytes, and a failing call leaves every pool and the generator as they
\* were; any other call succeeds.
C14_InvalidEventRejectedUnchanged ==
  last.op = "addRandomEvent" =>
    IF ValidEvent(last.args[1], last.args[2], last.args[3])
    THEN last.err = NoErr
    ELSE /\ last.err \in {"Invalid sourceId", "Invalid poolId", "Invalid eventData length"}
         /\ rng = last.pre
         /\ last.log = <<>>
         /\ last.args[1].kind # "int" => last.err = "Invalid sourceId"
         /\ last.args[3] \in {0, 33} =>
              (last.err = "Invalid eventData length"
                 <=> ValidEvent(last.args[1], last.args[2], 1))

\* A payload of 33 bytes for a pool that already held an event was refused,
\* and the pool still holds what it held.
C14_Witness ==
  /\ last.op = "addRandomEvent" /\ last.args[3] = 33
  /\ last.err = "Invalid eventData length"
  /\ last.pre.pools[1] # Empty
  /\ rng.pools[1] = last.pre.pools[1]

\* The bytes [sourceId, len, payload] of an event whose payload is len bytes b.
EncodedBytes(sourceId, len, b) == <<sourceId, len>> \o [i \in 1..len |-> b]

\* A pool of literal bytes with the bytes bs after it.
PoolWith(pool, bs) ==
  IF pool = Empty THEN <<[tag |-> "lit", v |-> bs]>>
  ELSE <<[tag |-> "lit", v |-> pool[1].v \o bs]>>

\* The last call was an addRandomEvent that succeeded.
Submitted == last.op = "addRandomEvent" /\ last.err = NoErr

\* C15: a successful addRandomEvent(sourceId, poolId, payload) appends exactly
\* the 2 + len(payload) bytes [sourceId, len(payload), payload] to the end of
\* pool poolId and changes nothing else.  A pool changes in no other way
\* than by such an append or by being emptied in a reseed, so it always
\* holds, in submission order, the encodings of the events submitted since it
\* was last emptied.  A reseed that takes a pool puts the hash of exactly
\* that content into the seed: for a pool that held one event, the hash of
\* that event's encoding.
C15_PoolIsTheEncodingsInOrder ==
  /\ [](/\ Submitted =>
             LET q == last.args[2].floor
                 bytes == EncodedBytes(last.args[1].floor, last.args[3], 170)
             IN  /\ Len(bytes) = 2 + last.args[3]
                 /\ rng.pools[q] = PoolWith(last.pre.pools[q], bytes)
                 /\ ByteLen(rng.pools[q]) = ByteLen(last.pre.pools[q]) + 2 + last.args[3]
                 /\ rng = [last.pre EXCEPT !.pools[q] = rng.pools[q]]
        /\ \A j \in Reseeding :
             LET e == last.log[j]
             IN  \A q \in PoolIndex :
                   e.post.pools[q] # e.pre.pools[q] =>
                     /\ e.post.pools[q] = Empty
                     /\ \E k \in 1..Len(e.data) :
                          e.data[k] = [tag |-> "sha", v |-> e.pre.pools[q]]
                     /\ ByteLen(e.pre.pools[q]) = 32 =>
                          \E k \in 1..Len(e.data) :
                            e.data[k] = [tag |-> "sha",
                                         v |-> PoolWith(Empty, EncodedBytes(0, 30, 170))])
  /\ [][\A q \in PoolIndex :
          \/ rng'.pools[q] = rng.pools[q]
          \/ /\ last'.op = "randomData"
             /\ rng'.pools[q] = Empty
          \/ /\ last'.op = "addRandomEvent" /\ last'.err = NoErr
             /\ last'.args[2].floor = q
             /\ rng'.pools[q] =
                  PoolWith(rng.pools[q],
                           EncodedBytes(last'.args[1].floor, last'.args[3], 170))]_vars

\* Pool 1 held one event of 30 bytes when a reseed took it: the seed holds the
\* hash of the 32 bytes [0, 30, payload], after the hash of pool 0, which held
\* two events in the order they were submitted.
C15_Witness ==
  /\ last.op = "randomData"
  /\ \E j \in Reseeding :
       /\ last.log[j].pre.pools[1] = PoolWith(Empty, EncodedBytes(0, 30, 170))
       /\ last.log[j].pre.pools[0] =
            PoolWith(PoolWith(Empty, EncodedBytes(0, 30, 170)), EncodedBytes(0, 30, 170))
       /\ Len(last.log[j].data) = 2
       /\ last.log[j].data[2] = [tag |-> "sha", v |-> last.log[j].pre.pools[1]]
       /\ rng.pools[1] = Empty

\* The last call was a generateInt32 made by the caller's own code.
Sampled == last.op = "generateInt32" /\ last.caller = "main"

\* C16: generateInt32(min, max) fails with an error when min or max is not an
\* integer or when min > max, and it fails before any generator output is
\* consumed: no block is generated, no reseed check runs, and key, counter,
\* pools and reseed count are what they were.  With integers min <= max the
\* call does not fail.
C16_InvalidRangeRejectedUnchanged ==
  Sampled =>
    LET min == last.args[1]
        max == last.args[2]
    IN  IF min.kind # "int" \/ max.kind # "int"
        THEN /\ last.err = "min and max must be integers."
             /\ rng = last.pre /\ last.log = <<>>
        ELSE IF min.floor > max.floor
        THEN /\ last.err = "min cannot be greater than max."
             /\ rng = last.pre /\ last.log = <<>>
        ELSE last.err = NoErr

\* generateInt32(6, 1) failed on a generator that earlier calls had advanced.
C16_Witness ==
  /\ Sampled
  /\ last.args = <<Num(6), Num(1)>>
  /\ last.err = "min cannot be greater than max."
  /\ CounterValue(rng.generatorCounter) >= 4
  /\ ops = MaxArgOps

\* 2^32 mod range and r mod range, 0 < range < 32768, r the four bytes b read
\* big-endian.
TwoTo32Mod(range) == ((65536 % range) * 65536) % range

RawMod(b, range) == (((b[1] * 256 + b[2]) % range) * 65536 + b[3] * 256 + b[4]) % range

\* r >= limit, limit = 2^32 - (2^32 mod range): r is among the last
\* 2^32 mod range values below 2^32.
AtOrAboveLimit(b, range) ==
  /\ b[1] = 255 /\ b[2] = 255
  /\ 65535 - (b[3] * 256 + b[4]) < TwoTo32Mod(range)

\* The four bytes of the j-th internal call of the last call, a getRaw32.
RawRead(j) == last.log[j].data[1].v

\* C17: for min < max, generateInt32 returns min + (r mod range), where
\* range = max - min + 1, limit = 2^32 - (2^32 mod range) and r is the first
\* raw unsigned 32-bit draw with r < limit: every draw before it was >= limit
\* and was discarded, and the value returned lies in min..max.
C17_FirstDrawBelowLimitDecides ==
  (Sampled /\ last.err = NoErr /\ last.args[1].floor < last.args[2].floor) =>
    LET min == last.args[1].floor
        max == last.args[2].floor
        range == max - min + 1
        reads == Entries("getRaw32")
    IN  /\ reads # {}
        /\ \A j \in reads :
             IF \A h \in reads : h <= j
             THEN /\ ~AtOrAboveLimit(RawRead(j), range)
                  /\ last.ret = min + RawMod(RawRead(j), range)
             ELSE AtOrAboveLimit(RawRead(j), range)
        /\ min <= last.ret /\ last.ret <= max

\* generateInt32(1, 6) read 2^32 - 4, which is the limit, discarded it, read
\* 2^32 - 5 and returned 1 + 5.
C17_Witness ==
  /\ Sampled /\ last.err = NoErr /\ last.args = <<Num(1), Num(6)>>
  /\ Cardinality(Entries("getRaw32")) = 2
  /\ \E j, h \in Entries("getRaw32") :
       /\ j < h
       /\ RawRead(j) = <<255, 255, 255, 252>>
       /\ RawRead(h) = <<255, 255, 255, 251>>
  /\ last.ret = 6

\* Limb arithmetic for counting, 0 < r <= 32768: w mod r, w div r and w + 1.
WideRem(w, r) == (((w.hi % r) * 65536) + w.lo) % r

WideDiv(w, r) ==
  [hi |-> w.hi \div r, lo |-> (((w.hi % r) * 65536) + w.lo) \div r]

WideSucc(w) ==
  IF w.lo = 65535 THEN [hi |-> w.hi + 1, lo |-> 0] ELSE [hi |-> w.hi, lo |-> w.lo + 1]

\* How many r in 0..limit-1 have r mod range = v: the values v, v + range,
\* v + 2 range, ... up to limit - 1, for v < limit.
CountBelow(limit, v, range) == ((limit - 1 - v) \div range) + 1

\* The same count for a limit kept in limbs.
WideCountBelow(limit, v, range) == WideSucc(WideDiv(WideSub(limit, v + 1), range))

\* C18: rejection sampling removes the modulo bias exactly: with
\* limit = 2^32 - (2^32 mod range), the number of raw 32-bit values r with
\* r < limit and r mod range = v is the same for every v in 0..range-1, namely
\* limit / range.  limit is the largest multiple of range that is at most
\* 2^32.  Over a word of SmallWord values the residues are counted one by
\* one and agree with the count by division used for 2^32.
C18_EveryResidueHasLimitOverRangePreimages ==
  (Sampled /\ last.args[1].floor < last.args[2].floor) =>
    LET range == last.args[2].floor - last.args[1].floor + 1
        limit == LimitOf(range)
        small == SmallWord - (SmallWord % range)
    IN  /\ WideRem(limit, range) = 0
        /\ WideGeq(UINT32_MAX_COUNT, limit)
        /\ WideGeq(limit, WideSub(UINT32_MAX_COUNT, range - 1))
        /\ \A v \in 0..(range - 1) :
             WideCountBelow(limit, v, range) = WideDiv(limit, range)
        /\ range <= SmallWord =>
             \A v \in 0..(range - 1) :
               /\ Cardinality({r \in 0..(small - 1) : r % range = v}) = small \div range
               /\ CountBelow(small, v, range) = small \div range

\* generateInt32(0, 5): limit is 2^32 - 4 and each of the six results has
\* 715827882 raw values.
C18_Witness ==
  /\ Sampled /\ last.err = NoErr
  /\ last.args = <<Num(0), Num(5)>>
  /\ LimitOf(6) = [hi |-> 65535, lo |-> 65532]
  /\ WideCountBelow(LimitOf(6), 5, 6) = [hi |-> 10922, lo |-> 43690]
  /\ Cardinality(Entries("getRaw32")) = 2

\* The last call was a generateInt32Batch with an integer count >= 0 and
\* integers min = max.
SingleValueBatch ==
  /\ last.op = "generateInt32Batch"
  /\ last.args[1].kind = "int" /\ last.args[1].floor >= 0
  /\ last.args[2].kind = "int" /\ last.args[3].kind = "int"
  /\ last.args[2].floor = last.args[3].floor

\* C19: with integers min = max, generateInt32 returns min and
\* generateInt32Batch returns count copies of min, and neither touches the
\* generator: key, counter, pools, reseed count and last reseed time are
\* unchanged, no reseed check and no other internal call runs, and the batch
\* neither waits for nor holds the mutex.
C19_SingleValueRangeTouchesNothing ==
  /\ (Sampled /\ last.args[1].kind = "int" /\ last.args[2].kind = "int"
         /\ last.args[1].floor = last.args[2].floor) =>
        /\ last.err = NoErr /\ last.ret = last.args[1].floor
        /\ rng = last.pre /\ last.log = <<>>
  /\ SingleValueBatch =>
        /\ last.err = NoErr
        /\ Len(last.ret) = last.args[1].floor
        /\ \A j \in 1..Len(last.ret) : last.ret[j] = last.args[2].floor
        /\ rng = last.pre /\ last.log = <<>>
  /\ \A b \in Batchers :
        (batch[b].pc # Idle \/ mutex.owner = b
           \/ \E i \in 1..Len(mutex.queue) : mutex.queue[i] = b)
          => batch[b].min.floor < batch[b].max.floor

\* generateInt32Batch(2, 3, 3) returned [3, 3] to b1 while b2 held the mutex
\* in the middle of its batch, on a generator that was not touched.
C19_Witness ==
  /\ SingleValueBatch /\ last.caller = "b1"
  /\ last.ret = <<3, 3>>
  /\ mutex.owner = "b2" /\ MidBatch("b2")
  /\ rng = last.pre

\* The last call was a generateInt32Batch with valid arguments: an integer
\* count >= 0 and integers min <= max.
ValidBatch ==
  /\ last.op = "generateInt32Batch"
  /\ last.args[1].kind = "int" /\ last.args[1].floor >= 0
  /\ last.args[2].kind = "int" /\ last.args[3].kind = "int"
  /\ last.args[2].floor <= last.args[3].floor

\* C20: for valid arguments generateInt32Batch(count, min, max) resolves to
\* an array of exactly count values, each an integer in min..max; the values
\* are those of count successive generateInt32(min, max) calls, the i-th call
\* giving the i-th element; count = 0 gives an empty array.
C20_BatchIsCountDrawsInOrder ==
  /\ [](/\ ValidBatch =>
             /\ last.err = NoErr
             /\ Len(last.ret) = last.args[1].floor
             /\ \A j \in 1..Len(last.ret) :
                  last.args[2].floor <= last.ret[j] /\ last.ret[j] <= last.args[3].floor
        /\ \A b \in Batchers :
             /\ Len(batch[b].results) = batch[b].i
             /\ batch[b].i <= batch[b].count)
  /\ [][\A b \in Batchers :
          /\ batch'[b].i = batch[b].i + 1 =>
               /\ last'.op = "generateInt32" /\ last'.caller = b /\ last'.err = NoErr
               /\ last'.args = <<batch[b].min, batch[b].max>>
               /\ batch'[b].results = Append(batch[b].results, last'.ret)
          /\ (batch[b].pc = "running" /\ batch'[b].pc = Idle) =>
               /\ last'.op = "generateInt32Batch" /\ last'.caller = b
               /\ last'.args = <<Num(batch[b].count), batch[b].min, batch[b].max>>
               /\ last'.ret = batch[b].results
               /\ batch[b].i = batch[b].count]_vars

\* generateInt32Batch(2, -2, 2) resolved to two different values, drawn in
\* two calls with a sleep between them.
C20_Witness ==
  /\ ValidBatch
  /\ last.args = <<Num(2), Num(-2), Num(2)>>
  /\ Len(last.ret) = 2
  /\ last.ret[1] # last.ret[2]
  /\ now > StartTime

\* The last call was a generateInt32Batch whose bounds break the rules of
\* generateInt32: one of them is not an integer, or min > max.
BatchBoundsInvalid ==
  /\ last.op = "generateInt32Batch"
  /\ \/ last.args[2].kind # "int" \/ last.args[3].kind # "int"
     \/ last.args[2].floor > last.args[3].floor

\* C21: generateInt32Batch fails when count is negative or not an integer,
\* and fails under the bound rules of generateInt32 (a bound that is not an
\* integer, or min > max) for every count, count = 0 included; the failing
\* call changes nothing of the generator, makes no internal call, and is
\* never queued for the mutex.
C21_InvalidBatchAlwaysRejected ==
  /\ (last.op = "generateInt32Batch"
        /\ (last.args[1].kind # "int" \/ last.args[1].floor < 0)) =>
        /\ last.err = "count must be a non-negative integer."
        /\ rng = last.pre /\ last.log = <<>>
  /\ BatchBoundsInvalid =>
        /\ last.err # NoErr
        /\ rng = last.pre /\ last.log = <<>>
  /\ \A b \in Batchers :
        (batch[b].pc # Idle \/ mutex.owner = b
           \/ \E i \in 1..Len(mutex.queue) : mutex.queue[i] = b)
          => /\ batch[b].min.kind = "int" /\ batch[b].max.kind = "int"
             /\ batch[b].min.floor <= batch[b].max.floor
             /\ batch[b].count > 0

\* generateInt32Batch(0, 6, 1) resolved to the empty array.
C21_ZeroCountSkipsBoundRules ==
  /\ BatchBoundsInvalid
  /\ last.args = <<Num(0), Num(6), Num(1)>>
  /\ last.err = NoErr /\ last.ret = <<>>

\* The last call handed a seed to seedFromData: a seedFromData call, or a
\* constructor call with an explicit seed.
Seeding ==
  /\ last.op \in {"seedFromData", "new"}
  /\ Len(last.args) = 1

\* C22: seedFromData, and the constructor given a seed, fail for every seed
\* whose length is not 64 bytes (63 and 65 included) with the key, the
\* counter, the pools, the reseed count, seeded and the last reseed time as
\* they were and no reseed run; every seed that seeding hands to reseed is 64
\* bytes long.
C22_WrongSeedLengthRejectedUnchanged ==
  /\ (Seeding /\ last.args[1] # 64) =>
        /\ last.err = "Seed data must be a Buffer of exactly 64 bytes."
        /\ rng = last.pre
        /\ last.log = <<>>
  /\ last.op \in {"seedFromData", "new"} =>
        \A j \in Entries("reseed") : ByteLen(last.log[j].data) = 64

\* seedFromData with a 65-byte seed failed on an instance that had been
\* reseeded by a 64-byte seed before, and left it as it was.
C22_Witness ==
  /\ last.op = "seedFromData" /\ last.args = <<65>>
  /\ last.err # NoErr
  /\ rng = last.pre /\ rng.reseedCount = 2 /\ reseeded

\* C23: two instances constructed with the same 64-byte seed, reading the
\* same clock and given the same caller operations with the same arguments,
\* return the same output (or fail with the same error) at every step.
C23_SameSeedSameOutputs ==
  /\ last.op = shadow.last.op /\ last.args = shadow.last.args
  /\ last.ret = shadow.last.ret
  /\ last.err = shadow.last.err

\* Both instances got the same randomData(16) at the same clock reading and
\* returned different bytes, both successfully.
C23_TwinsDiverge ==
  /\ last.op = "randomData" /\ shadow.last.op = "randomData"
  /\ last.args = shadow.last.args /\ last.clock = shadow.last.clock
  /\ last.err = NoErr /\ shadow.last.err = NoErr
  /\ last.ret # shadow.last.ret

\* The two errors of a generator that was never seeded (lines 196 and 326).
NotSeededErrors ==
  {"Generator must be seeded before generating data.",
   "Fortuna PRNG has not been seeded yet."}

\* C24: no block is encrypted while seeded is false; seeded is false only
\* inside the constructor, is true in every state in which the instance
\* exists, and never goes back to false; no call fails with a not-seeded
\* error, whether the seed was given or taken from the operating system.
C24_SeededFromConstructionOn ==
  /\ [](/\ (cpu = Constructing) = ~rng.seeded
        /\ \A j \in Entries("generateBlocks") : last.log[j].pre.seeded
        /\ last.err \notin NotSeededErrors
        /\ (last.op = "new" /\ last.err = NoErr) =>
              /\ ~last.pre.seeded /\ rng.seeded
              /\ Cardinality(Entries("reseed")) = 1)
  /\ [][rng.seeded => rng'.seeded]_vars

\* An instance constructed without a seed, from 64 bytes of OS randomness,
\* returned the 16 bytes of one cipher block and took a new key from two more.
C24_Witness ==
  /\ last.op = "randomData" /\ last.err = NoErr
  /\ ByteLen(last.ret) = 16
  /\ Cardinality(Entries("generateBlocks")) = 2
  /\ last.pre.generatorKey = hash(Cat(Fill(KEY_SIZE_BYTES, 0), Fill(SEED_LENGTH, 7)))
  /\ last.pre.reseedCount = 1

\* How many bytes at the end of a counter are 0xFF.
TrailingFF(c) ==
  Cardinality({i \in 1..BLOCK_SIZE_BYTES : \A j \in i..BLOCK_SIZE_BYTES : c[j] = 255})

\* One more than a 16-byte big-endian number, modulo 2^128: the trailing
\* 0xFF bytes become zero and the byte before them goes up by one.
PlusOne(c) ==
  [i \in 1..BLOCK_SIZE_BYTES |->
     IF i > BLOCK_SIZE_BYTES - TrailingFF(c) THEN 0
     ELSE IF i = BLOCK_SIZE_BYTES - TrailingFF(c) THEN c[i] + 1
     ELSE c[i]]

\* C25: incrementCounter adds exactly one to the counter read as a 16-byte
\* big-endian integer, modulo 2^128, carrying from the last byte upwards: the
\* low three bytes go up by one modulo 2^24, every byte stays a byte, and the
\* counter of sixteen 0xFF bytes becomes sixteen zero bytes without an error.
C25_IncrementAddsOneModulo2To128 ==
  last.op = "incrementCounter" =>
    /\ last.err = NoErr
    /\ rng.generatorCounter = PlusOne(last.pre.generatorCounter)
    /\ CounterValue(rng.generatorCounter)
         = (CounterValue(last.pre.generatorCounter) + 1) % 16777216
    /\ \A i \in 1..BLOCK_SIZE_BYTES : rng.generatorCounter[i] \in 0..255
    /\ (TrailingFF(last.pre.generatorCounter) = BLOCK_SIZE_BYTES)
         => rng.generatorCounter = [i \in 1..BLOCK_SIZE_BYTES |-> 0]
    /\ rng = [last.pre EXCEPT !.generatorCounter = rng.generatorCounter]

\* The counter of sixteen 0xFF bytes was incremented and is all zero.
C25_Witness ==
  /\ last.op = "incrementCounter" /\ last.err = NoErr
  /\ last.pre.generatorCounter = [i \in 1..BLOCK_SIZE_BYTES |-> 255]
  /\ rng.generatorCounter = [i \in 1..BLOCK_SIZE_BYTES |-> 0]

\* The key of an instance is 32 bytes and its counter is 16 bytes.
KeyAndCounterSized(st) ==
  /\ ByteLen(st.generatorKey) = 32
  /\ Len(st.generatorCounter) = 16
  /\ \A i \in 1..16 : st.generatorCounter[i] \in 0..255

\* C26: in every reachable state the key is exactly 32 bytes and the counter
\* exactly 16 bytes, and so they are before and after every internal step of
\* every call (generateBlocks, pseudoRandomData, reseed, seedFromData).
C26_KeyIs32BytesCounterIs16 ==
  /\ KeyAndCounterSized(rng)
  /\ \A j \in 1..Len(last.log) :
       KeyAndCounterSized(last.log[j].pre) /\ KeyAndCounterSized(last.log[j].post)

\* A randomData(17) reseeded from pool 0 and took its new key from two cipher
\* blocks: the key went from a digest to 32 cipher bytes.
C26_Witness ==
  /\ last.op = "randomData" /\ last.args = <<17>> /\ last.err = NoErr
  /\ Entries("reseed") # {}
  /\ rng.generatorKey # last.pre.generatorKey
  /\ Len(rng.generatorKey) = 1 /\ rng.generatorKey[1].tag = "aes"
  /\ KeyAndCounterSized(rng)

\* C27: the reseed counter is a non-negative integer; every reseed, from
\* seedFromData or from the pools, adds exactly one to it; generateBlocks,
\* pseudoRandomData and addRandomEvent leave it alone, so a call changes it by
\* the number of reseeds it ran, each of them inside a seedFromData or a
\* reseed check; it never decreases.
C27_ReseedCountCountsReseeds ==
  /\ [](/\ rng.reseedCount \in Nat
        /\ \A j \in 1..Len(last.log) :
             LET e == last.log[j]
             IN  /\ e.ev = "reseed" => e.post.reseedCount = e.pre.reseedCount + 1
                 /\ e.ev \in {"generateBlocks", "pseudoRandomData", "addRandomEvent"}
                      => e.post.reseedCount = e.pre.reseedCount
        /\ rng.reseedCount = last.pre.reseedCount + Cardinality(Entries("reseed"))
        /\ Cardinality(Entries("reseed"))
             = Cardinality(Entries("seedFromData")) + Cardinality(Reseeding))
  /\ [][/\ rng'.reseedCount >= rng.reseedCount
        /\ rng'.reseedCount # rng.reseedCount =>
             /\ last'.op \in {"seedFromData", "randomData"}
             /\ rng'.reseedCount = rng.reseedCount + 1]_vars

\* The counter stands at 3 after the constructor's seeding, a seedFromData
\* and a pool-triggered reseed, the last of which just ran.
C27_Witness ==
  /\ last.op = "randomData" /\ Reseeding # {}
  /\ reseeded /\ poolReseeds = 1
  /\ last.pre.reseedCount = 2 /\ rng.reseedCount = 3

\* C28: the last reseed time is the clock reading of the latest reseed of
\* either kind, and a pool-triggered reseed runs only on a reading at least
\* 100 ms after it, however full pool 0 is: no pool-triggered reseed comes
\* less than 100 ms after the reseed before it, a seedFromData included.
C28_PoolReseedsAtLeast100msApart ==
  /\ [](/\ rng.lastReseedTime <= now
        /\ \A j \in Reseeding :
             /\ last.log[j].n = last.clock
             /\ last.log[j].n - last.log[j].pre.lastReseedTime >= 100
             /\ last.log[j].post.lastReseedTime = last.log[j].n
        /\ Cardinality(Reseeding) <= 1)
  /\ [][IF rng'.reseedCount # rng.reseedCount
        THEN /\ rng'.lastReseedTime = now
             /\ last'.op = "randomData" => now - rng.lastReseedTime >= 100
        ELSE rng'.lastReseedTime = rng.lastReseedTime]_vars

\* A randomData found pool 0 full one millisecond after a seedFromData and
\* did not reseed; 99 ms later another one did.
C28_Witness ==
  /\ last.op = "randomData" /\ Reseeding # {}
  /\ reseeded
  /\ last.pre.lastReseedTime = StartTime + 99
  /\ last.clock = StartTime + 199
  /\ ByteLen(last.pre.pools[0]) = MaxPoolBytes

\* C29: every pool-triggered reseed takes pool 0 and leaves it empty; pool 0
\* grows only by addRandomEvent, by at most 34 bytes an event; and a
\* pool-triggered reseed finds at least 64 bytes in it: between one
\* pool-triggered reseed and the next at least two events went to pool 0.
C29_PoolZeroEmptyAfterPoolReseed ==
  /\ [](/\ \A j \in Reseeding :
             /\ 0 \in Consumed(last.log[j])
             /\ last.log[j].post.pools[0] = Empty
             /\ ByteLen(last.log[j].pre.pools[0]) >= 64
        /\ \A j \in Entries("addRandomEvent") :
             /\ ByteLen(last.log[j].post.pools[0])
                  <= ByteLen(last.log[j].pre.pools[0]) + 34
             /\ ByteLen(last.log[j].data) <= 34)
  /\ [][/\ poolReseeds' # poolReseeds =>
             /\ ByteLen(rng.pools[0]) >= 64
             /\ rng'.pools[0] = Empty
        /\ ByteLen(rng'.pools[0]) > ByteLen(rng.pools[0]) =>
             /\ last'.op = "addRandomEvent"
             /\ ByteLen(rng'.pools[0]) <= ByteLen(rng.pools[0]) + 34
             /\ ByteLen(rng'.pools[0]) < 64 => poolReseeds' = poolReseeds]_vars

\* The second pool-triggered reseed ran on the 64 bytes of the two events
\* submitted to pool 0 since the first, and emptied the pool again.
C29_Witness ==
  /\ last.op = "randomData" /\ Reseeding # {}
  /\ poolReseeds = 2 /\ ~reseeded
  /\ ByteLen(last.pre.pools[0]) = 64
  /\ rng.pools[0] = Empty

\* The last call was a generateInt32 with integers min < max, which the
\* validation accepts.
SampledRange ==
  /\ Sampled
  /\ IsInteger(last.args[1]) /\ IsInteger(last.args[2])
  /\ IntOver(last.args[2], last.args[1])

\* C30: for every pair of integers min < max that generateInt32 accepts,
\* limit is a positive multiple of range with range <= limit <= 2^32, so a
\* raw read of 0 is below it: a call that has read a 0 has returned.
C30_LimitIsPositiveMultipleOfRange ==
  SampledRange =>
    /\ WideGeq(LimitOfWide(RangeOfWide(last.args[1], last.args[2])),
               RangeOfWide(last.args[1], last.args[2]))
    /\ WideGeq(UINT32_MAX_COUNT, LimitOfWide(RangeOfWide(last.args[1], last.args[2])))
    /\ WideRemBy(LimitOfWide(RangeOfWide(last.args[1], last.args[2])),
                 RangeOfWide(last.args[1], last.args[2])) = [hi |-> 0, lo |-> 0]
    /\ (\E j \in Entries("getRaw32") : RawRead(j) = <<0, 0, 0, 0>>) => last.err = NoErr

\* generateInt32(0, 2^32) has read six times, 0 four times among them, and is
\* still in its loop: its limit is 0.
C30_StillDrawing ==
  /\ SampledRange
  /\ last.args = <<Num(0), Big(1, 0)>>
  /\ LimitOfWide(RangeOfWide(last.args[1], last.args[2])) = [hi |-> 0, lo |-> 0]
  /\ last.err = Starved /\ cpu = "main"
  /\ Cardinality(Entries("getRaw32")) = 6
  /\ Cardinality({j \in Entries("getRaw32") : RawRead(j) = <<0, 0, 0, 0>>}) = 4

\* C31: a randomData(n) call rejected because n is negative leaves the key,
\* the counter, every pool, the reseed count and the last reseed time as they
\* were before the call.
C31_NegativeRequestChangesNothing ==
  (last.op = "randomData" /\ last.args[1] < 0) =>
    /\ last.err = "Invalid number of bytes requested"
    /\ rng.generatorKey = last.pre.generatorKey
    /\ rng.generatorCounter = last.pre.generatorCounter
    /\ rng.pools = last.pre.pools
    /\ rng.reseedCount = last.pre.reseedCount
    /\ rng.lastReseedTime = last.pre.lastReseedTime

\* randomData(-1) was rejected after its reseed check had reseeded from pool
\* 0: the key, the counter, pool 0, the reseed count and the last reseed time
\* all differ from what they were.
C31_RejectedAfterReseed ==
  /\ last.op = "randomData" /\ last.args = <<-1>>
  /\ last.err = "Invalid number of bytes requested"
  /\ Reseeding # {}
  /\ rng.generatorKey # last.pre.generatorKey
  /\ rng.generatorCounter # last.pre.generatorCounter
  /\ last.pre.pools[0] # Empty /\ rng.pools[0] = Empty
  /\ rng.reseedCount = last.pre.reseedCount + 1
  /\ rng.lastReseedTime = last.clock /\ last.pre.lastReseedTime < last.clock

\* C32: seedFromData with a valid 64-byte seed performs exactly one generator
\* reseed, with that seed as its material, sets the last reseed time to the
\* clock reading of the call and leaves all 32 pools as they were.
C32_SeedFromDataReseedsOnceKeepsPools ==
  (last.op = "seedFromData" /\ last.args = <<SEED_LENGTH>>) =>
    /\ last.err = NoErr
    /\ Cardinality(Entries("reseed")) = 1
    /\ Entries("reseedCheck") = {}
    /\ \A j \in Entries("reseed") :
         /\ last.log[j].pre = last.pre
         /\ last.log[j].data = Fill(SEED_LENGTH, 1)
         /\ rng.generatorKey = hash(Cat(last.pre.generatorKey, Fill(SEED_LENGTH, 1)))
         /\ rng.generatorCounter = incrementCounter(last.pre.generatorCounter)
    /\ rng.reseedCount = last.pre.reseedCount + 1
    /\ rng.lastReseedTime = last.clock
    /\ rng.pools = last.pre.pools
    /\ rng.seeded

\* seedFromData ran on an instance whose pool 0 held enough for a
\* pool-triggered reseed, later than the reseed before it.
C32_Witness ==
  /\ last.op = "seedFromData" /\ last.args = <<SEED_LENGTH>> /\ last.err = NoErr
  /\ ByteLen(last.pre.pools[0]) >= POOL_SIZE
  /\ rng.pools[0] = last.pre.pools[0]
  /\ last.pre.lastReseedTime < last.clock
  /\ rng.lastReseedTime = last.clock
  /\ last.pre.reseedCount > 1

\* C33: randomData(0) returns an empty buffer without generating a block and
\* without rekeying: the key and the counter after the call are those right
\* after the call's reseed check, and nothing at all changes when the gate
\* of that check is closed.
C33_ZeroBytesNoBlockNoRekey ==
  (last.op = "randomData" /\ last.args = <<0>>) =>
    /\ last.err = NoErr
    /\ last.ret = Empty
    /\ Entries("generateBlocks") = {}
    /\ Cardinality(Entries("reseedCheck")) = 1
    /\ \A j \in Entries("reseedCheck") :
         /\ last.log[j].pre = last.pre
         /\ rng = last.log[j].post
         /\ rng.generatorKey = last.log[j].post.generatorKey
         /\ rng.generatorCounter = last.log[j].post.generatorCounter
         /\ ~ReseedGate(last.pre, last.clock) => rng = last.pre

\* randomData(0) found the gate open: its reseed check reseeded from pool 0,
\* which moved the counter on by one, and nothing was generated after it.
C33_Witness ==
  /\ last.op = "randomData" /\ last.args = <<0>> /\ last.err = NoErr
  /\ last.ret = Empty
  /\ Reseeding # {}
  /\ Entries("generateBlocks") = {}
  /\ rng.generatorKey # last.pre.generatorKey
  /\ rng.generatorCounter = incrementCounter(last.pre.generatorCounter)
  /\ rng.reseedCount = last.pre.reseedCount + 1

\* The counter's advance over the last call, in blocks.
CounterAdvance == CounterValue(rng.generatorCounter) - CounterValue(last.pre.generatorCounter)

\* C34: every raw draw of generateInt32, accepted or rejected, is a
\* randomData(4) request of its own with its own reseed check and its own
\* rekey, so a call with min < max that makes d raw draws during which s
\* reseeds occur advances the counter by exactly 3d + s.
C34_CounterAdvancesThreePerDrawOnePerReseed ==
  (/\ Sampled
   /\ IsInteger(last.args[1]) /\ IsInteger(last.args[2])
   /\ ~IntOver(last.args[1], last.args[2]) /\ last.args[1] # last.args[2]) =>
    LET d == Cardinality(Entries("getRaw32"))
        s == Cardinality(Reseeding)
    IN  /\ last.err = NoErr
        /\ d >= 1
        /\ Cardinality(Entries("randomData")) = d
        /\ \A j \in Entries("randomData") : last.log[j].n = 4
        /\ Cardinality(Entries("reseedCheck")) = d
        /\ Cardinality(Entries("generateBlocks")) = 2 * d
        /\ \A j \in Entries("getRaw32") :
             /\ j > 5
             /\ \E k \in Entries("reseedCheck") :
                  /\ k < j - 3
                  /\ \E m \in Entries("randomData") :
                       /\ m < k
                       /\ \A i \in Entries("getRaw32") : i < j => i < m
             /\ last.log[j - 3].ev = "generateBlocks" /\ last.log[j - 3].n = 1
             /\ last.log[j - 2].ev = "generateBlocks" /\ last.log[j - 2].n = 2
             /\ last.log[j - 1].ev = "pseudoRandomData" /\ last.log[j - 1].n = 4
             /\ last.log[j - 1].post.generatorKey # last.log[j - 1].pre.generatorKey
        /\ CounterAdvance = 3 * d + s

\* A call drew twice, the first draw refused, and the first draw's check
\* reseeded from pool 0: the counter moved on by 3 * 2 + 1.
C34_Witness ==
  /\ Sampled /\ last.args = <<Num(1), Num(6)>> /\ last.err = NoErr
  /\ Cardinality(Entries("getRaw32")) = 2
  /\ Cardinality(Reseeding) = 1
  /\ CounterAdvance = 7

\* The calls that submit an event: a caller's, and those of the three
\* internal timers.
EventOps == {"addRandomEvent", "addRandomEventID1", "addRandomEventID2", "addRandomEventID3"}

\* C35: addRandomEvent, called by a caller or by an internal timer, changes
\* only the pool it names: the key, the counter, the reseed count, the last
\* reseed time and the seeded flag stay as they were, no reseed and no reseed
\* check runs in it, and it takes no mutex, so that it runs and takes effect
\* while a batch is suspended holding the mutex.
C35_EventTouchesOnlyItsPool ==
  /\ [](last.op \in EventOps =>
          LET q == last.args[2].floor
          IN  /\ rng = [last.pre EXCEPT !.pools[q] = rng.pools[q]]
              /\ rng.generatorKey = last.pre.generatorKey
              /\ rng.generatorCounter = last.pre.generatorCounter
              /\ rng.reseedCount = last.pre.reseedCount
              /\ rng.lastReseedTime = last.pre.lastReseedTime
              /\ rng.seeded = last.pre.seeded
              /\ Entries("reseed") = {} /\ Entries("reseedCheck") = {}
              /\ last.err = NoErr =>
                   ByteLen(rng.pools[q]) = ByteLen(last.pre.pools[q]) + 2 + last.args[3]
              /\ last.err # NoErr => rng = last.pre)
  /\ [][(last'.op \in EventOps /\ rng' # rng) =>
          /\ rng' = [rng EXCEPT !.pools[last'.args[2].floor] = rng'.pools[last'.args[2].floor]]
          /\ mutex' = mutex
          /\ batch' = batch
          /\ cpu' = cpu /\ cpu = Idle
          /\ poolReseeds' = poolReseeds]_vars

\* A timer's event went into pool 0 while batch b1 was asleep holding the
\* mutex: the pool now holds enough for a reseed and the reseed interval has
\* passed, and no reseed has run.
C35_Witness ==
  /\ last.op = "addRandomEventID1" /\ last.caller = "timer" /\ last.err = NoErr
  /\ last.args[2] = Num(0)
  /\ mutex.owner = "b1" /\ batch["b1"].pc = "sleeping"
  /\ ByteLen(rng.pools[0]) = ByteLen(last.pre.pools[0]) + 34
  /\ ReseedGate(rng, now)
  /\ rng.reseedCount = last.pre.reseedCount

\* C36: no internal timer's handler ever throws: every event it submits
\* passes the validation of addRandomEvent (a pool 0..31, a payload of 1..32
\* bytes), so each handler starts its successor and exactly three internal
\* timers are pending at all times after construction.
C36_HandlersNeverThrowThreeTimersPending ==
  /\ Len(timers) = 3
  /\ last.caller = "timer" =>
       /\ last.err = NoErr
       /\ last.args[2].floor \in 0..(NUM_POOLS - 1)
       /\ last.args[3] \in 1..32

\* addRandomEventID3 submitted the 33 bytes of `${pid}${system}${user}` for
\* process 4194304 after 10^12 us of system and 10^12 us of user time:
\* addRandomEvent threw, the handler started no successor, two timers are left.
C36_HandlerThrewChainBroken ==
  /\ last.op = "addRandomEventID3" /\ last.caller = "timer"
  /\ last.args[3] = 33
  /\ last.err = "Invalid eventData length"
  /\ rng = last.pre
  /\ Len(timers) = 2
  /\ \A k \in 1..Len(timers) : timers[k].fn # "addRandomEventID1"

\* C37: every generateInt32Batch call with valid arguments resolves in the
\* end, and the mutex is released when the body of a batch finishes, so that
\* a batch waiting for the mutex acquires it in the end and runs.  On finite
\* runs: a batch that has not resolved always has its next step ahead of it
\* (a waiting batch is queued for a mutex that is free or held by a batch
\* still at work, a sleeping batch has its timer due within the sleep, the
\* next draw of a running batch ends for some read), every step of a batch
\* moves it forward, and the step that ends the body gives the mutex back.
C37_EveryBatchResolves ==
  /\ [](\A b \in Batchers :
          /\ batch[b].pc = "waiting" =>
               /\ \E k \in 1..Len(mutex.queue) : mutex.queue[k] = b
               /\ mutex.owner # Idle => batch[mutex.owner].pc \in {"running", "sleeping"}
          /\ batch[b].pc = "sleeping" =>
               /\ mutex.owner = b
               /\ batch[b].wakeAt <= now + SLEEP_MS
          /\ batch[b].pc = "running" =>
               /\ mutex.owner = b /\ cpu = b
               /\ batch[b].i <= batch[b].count
               /\ batch[b].i < batch[b].count =>
                    \E raws \in LiveRaws :
                      generateInt32(rng, batch[b].min, batch[b].max, now, raws).err = NoErr
          /\ batch[b].pc = Idle => mutex.owner # b)
  /\ [][\A b \in Batchers :
          /\ (batch[b].pc # Idle /\ batch'[b].pc # Idle) => batch'[b].i >= batch[b].i
          /\ (batch[b].pc = "waiting" /\ batch'[b].pc # "waiting") =>
               (batch'[b].pc = "running" /\ mutex'.owner = b)
          /\ (batch[b].pc = "running" /\ batch'[b].pc = Idle) =>
               /\ mutex.owner = b /\ mutex'.owner = Idle
               /\ batch[b].i = batch[b].count
               /\ last'.op = "generateInt32Batch" /\ last'.caller = b
               /\ last'.err = NoErr
               /\ Len(last'.ret) = batch[b].count]_vars

\* The batch of b1 over 0..2^32 is in the loop of its first draw, the mutex
\* its own, and has used up the reads of this model: the limit of its range
\* is 0, which every read reaches.  The batch of b2 waits for the mutex.
C37_BatchSpinsHoldingMutex ==
  /\ batch["b1"].pc = "running" /\ batch["b1"].i = 0 /\ cpu = "b1"
  /\ batch["b1"].max = Big(1, 0)
  /\ mutex.owner = "b1"
  /\ LimitOfWide(RangeOfWide(batch["b1"].min, batch["b1"].max)) = [hi |-> 0, lo |-> 0]
  /\ last.op = "generateInt32" /\ last.caller = "b1" /\ last.err = Starved
  /\ ops = MaxBatchOps + MaxSpins
  /\ batch["b2"].pc = "waiting" /\ mutex.queue = <<"b2">>

\* Some call has met the overflow of the counter, which resets the generator.
WebReset == \E c \in WebCallers : webCalls[c].pc = "reseed" \/ webCalls[c].seedMaterial # Empty
                                  \/ webCalls[c].err = "Counter overflow. RNG has been reset."

\* C38: with two generateRandomBytes calls in flight together, no counter
\* value produces an output block for both calls: every block is the
\* encryption of a counter value no other block was made from, and no
\* counter value is passed over, the block a call adds being made from the
\* value the counter of the instance holds when it is incremented.
C38_NoCounterSharedNoneSkipped ==
  /\ [](~WebReset =>
          \A a \in WebCallers, b \in WebCallers :
            \A i \in 1..Len(webCalls[a].result), j \in 1..Len(webCalls[b].result) :
              (a # b \/ i # j) => webCalls[a].result[i].ctr # webCalls[b].result[j].ctr)
  /\ [][~WebReset' =>
          \A c \in WebCallers :
            Len(webCalls'[c].result) > Len(webCalls[c].result) =>
              /\ webCalls'[c].result[Len(webCalls'[c].result)].ctr = webRng.counter
              /\ webRng'.counter = WebIncrement(webRng.counter, BLOCK_SIZE_BYTES)]_vars

\* Both calls asked for 4 bytes and have returned: each block is the
\* encryption of counter value 0, the counter stands at 2, and no block was
\* made from the value 1.
C38_BothCallsUsedTheSameCounter ==
  /\ \A c \in WebCallers :
       /\ webCalls[c].pc = "done" /\ webCalls[c].length = 4
       /\ Len(webCalls[c].result) = 1
       /\ webCalls[c].result[1].ctr = [k \in 1..BLOCK_SIZE_BYTES |-> 0]
       /\ webCalls[c].result[1].key = generateInitialKey
  /\ webRng.counter = [k \in 1..BLOCK_SIZE_BYTES |-> IF k = BLOCK_SIZE_BYTES THEN 2 ELSE 0]
  /\ ~WebReset

\* C39: in the capped-pool variant, an addEntropy that targets a pool longer
\* than 256 bytes replaces it by the 32-byte SHA-256 digest of the pool
\* followed by the submission, one that targets a pool of at most 256 bytes
\* appends the submission, no other pool changes, and so no pool is ever
\* longer than 256 bytes plus the length of one submission.
C39_LongPoolReplacedByDigestPoolsBounded ==
  /\ [](\A i \in PoolIndex : ByteLen(statRng.pools[i]) <= MIN_POOL_SIZE * 4 + MaxSubmission)
  /\ [][ops' = ops + 1 =>
          LET p == statRng.poolIndex
              pool == statRng.pools[p]
          IN  /\ \E n \in StatLengths \cup {MIN_POOL_SIZE} :
                   statRng'.pools[p] =
                     IF ByteLen(pool) > MIN_POOL_SIZE * 4
                     THEN hash(Cat(pool, Fill(n, 170)))
                     ELSE Cat(pool, Fill(n, 170))
              /\ ByteLen(pool) > MIN_POOL_SIZE * 4 => ByteLen(statRng'.pools[p]) = 32
              /\ \A i \in PoolIndex \ {p} : statRng'.pools[i] = statRng.pools[i]]_vars

\* Pool 0 grew to the bound of 256 + 300 bytes and the next submission to it
\* left the 32-byte digest of those bytes and the submission.
C39_Witness ==
  /\ Len(statRng.pools[0]) = 1
  /\ statRng.pools[0][1].tag = "sha"
  /\ ByteLen(statRng.pools[0][1].v) > MIN_POOL_SIZE * 4 + MaxSubmission
  /\ ByteLen(statRng.pools[0]) = 32
====
